---- MODULE Spec2Model ----
(***************************************************************************)
(* A model of the script_apply_edits request pipeline of the Unity MCP     *)
(* server (services/tools/script_apply_edits.py, services/tools/utils.py). *)
(*                                                                         *)
(* Python dicts are functions whose DOMAIN is the set of keys present.     *)
(* Python strings that the code slices, searches or concatenates (file     *)
(* contents, texts, regex patterns) are sequences of one-character         *)
(* strings; strings the code only compares, strips and lowercases (op      *)
(* tags, position, option values) are TLA+ strings.                        *)
(***************************************************************************)
EXTENDS Integers, Sequences, FiniteSets, TLC

(***************************************************************************)
(* Bounds of the model.                                                    *)
(***************************************************************************)
\* longest batch of edits a request carries
MaxLen == 2

\* the concurrent requests
Reqs == {"r1", "r2"}

(***************************************************************************)
(* Python dict and value helpers.                                          *)
(***************************************************************************)
\* `k in e`
Has(e, k) == k \in DOMAIN e

\* e[k] = v
Put(e, k, v) == [x \in (DOMAIN e) \cup {k} |-> IF x = k THEN v ELSE e[x]]

\* e.pop(k)
Pop(e, k) == [x \in (DOMAIN e) \ {k} |-> e[x]]

\* e.setdefault(k, v)
SetDefault(e, k, v) == IF Has(e, k) THEN e ELSE Put(e, k, v)

\* bool(e.get(k)) for a key holding text (None and "" are falsy)
Truthy(e, k) == Has(e, k) /\ e[k] # <<>>

\* e.get(k) or "" for a key holding text
TextOf(e, k) == IF Has(e, k) THEN e[k] ELSE <<>>

\* bool(e.get(k)) for a key holding a tag (op, operation, type, mode, position)
TruthyTag(e, k) == Has(e, k) /\ e[k] # ""

\* s.strip().lower() for the tag spellings the inputs use
StripLower(s) ==
    CASE s = "Prepend "       -> "prepend"
      [] s = "REGEX_REPLACE"  -> "regex_replace"
      [] s = " "              -> ""
      [] s = "After"          -> "after"
      [] s = "Before"         -> "before"
      [] OTHER                -> s

\* s.lower() for the same spellings
Lower(s) ==
    CASE s = "Prepend "       -> "prepend "
      [] s = "REGEX_REPLACE"  -> "regex_replace"
      [] s = "After"          -> "after"
      [] s = "Before"         -> "before"
      [] OTHER                -> s

\* (e.get("op") or e.get("operation") or e.get("type") or e.get("mode") or "").strip().lower()
OpOf(e) ==
    StripLower(IF TruthyTag(e, "op") THEN e["op"]
               ELSE IF TruthyTag(e, "operation") THEN e["operation"]
               ELSE IF TruthyTag(e, "type") THEN e["type"]
               ELSE IF TruthyTag(e, "mode") THEN e["mode"]
               ELSE "")

\* (e.get("op") or "").lower(), as the router reads the tag
RouterOp(e) == Lower(IF TruthyTag(e, "op") THEN e["op"] ELSE "")

(***************************************************************************)
(* The Edit Normalizer.                                                    *)
(***************************************************************************)
WrapperKeys ==
    << "replace_method", "insert_method", "delete_method",
       "replace_class", "delete_class",
       "anchor_insert", "anchor_replace", "anchor_delete" >>

\* the single-key wrapper {"replace_method": {...}} is hoisted and tagged
Unwrap(edit) ==
    LET hits == {i \in 1..Len(WrapperKeys) : Has(edit, WrapperKeys[i])}
    IN  IF hits = {} THEN edit
        ELSE LET i == CHOOSE j \in hits : \A h \in hits : j <= h
             IN  Put(edit[WrapperKeys[i]], "op", WrapperKeys[i])

Alias_keeps_alias(e, from, to) ==
    IF Has(e, from) /\ ~Has(e, to) THEN Put(e, to, e[from]) ELSE e

\* if from in e and to not in e: e[to] = e.pop(from)
Alias(e, from, to) ==
    IF Has(e, from) /\ ~Has(e, to) THEN Put(Pop(e, from), to, e[from]) ELSE e

\* the alias table of _unwrap_and_alias, in source order
AliasTable ==
    << <<"class_name", "className">>, <<"class", "className">>,
       <<"method_name", "methodName">>, <<"target", "methodName">>,
       <<"method", "methodName">>,
       <<"new_content", "replacement">>, <<"newMethod", "replacement">>,
       <<"new_method", "replacement">>, <<"content", "replacement">>,
       <<"after", "afterMethodName">>, <<"after_method", "afterMethodName">>,
       <<"before", "beforeMethodName">>, <<"before_method", "beforeMethodName">> >>

RECURSIVE ApplyAliases(_, _)
ApplyAliases(e, i) ==
    IF i > Len(AliasTable) THEN e
    ELSE ApplyAliases(Alias(e, AliasTable[i][1], AliasTable[i][2]), i + 1)

\* anchor_method -> beforeMethodName / afterMethodName by position (default after)
AnchorMethod(e) ==
    IF ~Has(e, "anchor_method") THEN e
    ELSE LET anchor == e["anchor_method"]
             e1 == Pop(e, "anchor_method")
             pos == StripLower(IF TruthyTag(e1, "position") THEN e1["position"] ELSE "after")
         IN  IF pos = "before" /\ ~Has(e1, "beforeMethodName")
                 THEN Put(e1, "beforeMethodName", anchor)
             ELSE IF ~Has(e1, "afterMethodName")
                 THEN Put(e1, "afterMethodName", anchor)
             ELSE e1

\* e["op"].startswith("anchor_")
IsAnchorOp(op) == op \in {"anchor_insert", "anchor_replace", "anchor_delete"}

\* "pattern" is read as the anchor of an anchor_* operation
PatternAsAnchor(e) ==
    IF Has(e, "pattern") /\ ~Has(e, "anchor") /\ TruthyTag(e, "op") /\ IsAnchorOp(e["op"])
    THEN Put(Pop(e, "pattern"), "anchor", e["pattern"])
    ELSE e

UpgradeAnchorInsert_only_without_text(e) ==
    IF /\ Has(e, "op") /\ e["op"] = "anchor_insert"
       /\ ~Truthy(e, "anchor") /\ ~Truthy(e, "text")
       /\ (Truthy(e, "afterMethodName") \/ Truthy(e, "beforeMethodName"))
    THEN LET e1 == Put(e, "op", "insert_method")
         IN  IF Has(e1, "replacement") THEN e1
             ELSE Put(e1, "replacement", TextOf(e1, "text"))
    ELSE e

\* a method-anchored anchor_insert is upgraded to insert_method
UpgradeAnchorInsert(e) ==
    IF /\ Has(e, "op") /\ e["op"] = "anchor_insert"
       /\ ~Truthy(e, "anchor")
       /\ (Truthy(e, "afterMethodName") \/ Truthy(e, "beforeMethodName"))
    THEN LET e1 == Put(e, "op", "insert_method")
         IN  IF Has(e1, "replacement") THEN e1
             ELSE Put(e1, "replacement", TextOf(e1, "text"))
    ELSE e

\* rng.get(side, {}).get(field, 0)
RangeGet(rng, side, field) ==
    IF Has(rng, side) /\ Has(rng[side], field) THEN rng[side][field] ELSE 0

\* an LSP-like range edit becomes a 1-based replace_range
LspRange(e, edit) ==
    IF ~Has(e, "range") THEN e
    ELSE LET rng == e["range"]
             e1 == Pop(e, "range")
             e2 == Put(e1, "op", "replace_range")
             e3 == Put(e2, "startLine", RangeGet(rng, "start", "line") + 1)
             e4 == Put(e3, "startCol", RangeGet(rng, "start", "character") + 1)
             e5 == Put(e4, "endLine", RangeGet(rng, "end", "line") + 1)
             e6 == Put(e5, "endCol", RangeGet(rng, "end", "character") + 1)
         IN  IF Has(edit, "newText") /\ ~Has(e6, "text")
             THEN Put(e6, "text", edit["newText"]) ELSE e6

_unwrap_and_alias(raw) ==
    LET edit == Unwrap(raw)
        op == OpOf(edit)
        e0 == IF op # "" THEN Put(edit, "op", op) ELSE edit
        e1 == ApplyAliases(e0, 1)
        e2 == AnchorMethod(e1)
        e3 == Alias(e2, "anchorText", "anchor")
        e4 == PatternAsAnchor(e3)
        e5 == Alias(e4, "newText", "text")
        e6 == UpgradeAnchorInsert(e5)
    IN  LspRange(e6, edit)

ClassNameOps ==
    {"replace_class", "delete_class", "replace_method", "delete_method", "insert_method"}

\* the replacement of a regex_replace defaults to its text / insert / content
RegexReplacementDefault(e) ==
    IF Has(e, "replacement") THEN e
    ELSE IF Has(e, "text") THEN Put(e, "replacement", e["text"])
    ELSE IF Has(e, "insert") \/ Has(e, "content")
         THEN Put(e, "replacement",
                  IF Truthy(e, "insert") THEN e["insert"] ELSE TextOf(e, "content"))
    ELSE e

\* className defaults to the script name on method and class operations
DefaultClassName(e, op, script_name) ==
    IF op \in ClassNameOps /\ ~Truthy(e, "className") THEN Put(e, "className", script_name)
    ELSE e

\* an anchor_insert that carries no insertable text becomes an anchor_delete
RetagAnchorInsert(e, op) ==
    IF /\ op = "anchor_insert"
       /\ ~(Truthy(e, "text") \/ Truthy(e, "insert") \/ Truthy(e, "content")
            \/ Truthy(e, "replacement"))
    THEN Put(e, "op", "anchor_delete")
    ELSE e

\* the text-op aliases and reclassification, for the edit e resolved to tag op
NormalizeTagged(e, op) ==
    IF op = "text_replace" THEN Put(e, "op", "replace_range")
    ELSE IF op = "regex_delete"
         THEN SetDefault(Put(e, "op", "regex_replace"), "text", <<>>)
    ELSE RetagAnchorInsert(IF op = "regex_replace" THEN RegexReplacementDefault(e) ELSE e, op)

\* the loop body after _unwrap_and_alias
NormalizeAliased(e, script_name) ==
    NormalizeTagged(DefaultClassName(e, OpOf(e), script_name), OpOf(e))

\* one iteration of the loop of _normalize_edits
NormalizeOne(raw, script_name) == NormalizeAliased(_unwrap_and_alias(raw), script_name)

_normalize_edits(raw_edits, script_name) ==
    [i \in 1..Len(raw_edits) |-> NormalizeOne(raw_edits[i], script_name)]

(***************************************************************************)
(* Text primitives.  Offsets are 0-based as in Python; sequences are       *)
(* 1-based, so text[a:b] is SubSeq(text, a + 1, b).                        *)
(***************************************************************************)
NL == "\n"

\* text[a:b]
Slice(text, a, b) == SubSeq(text, a + 1, b)

\* text.startswith(p) / text.endswith(p) for a one-character p
StartsWith(text, ch) == Len(text) > 0 /\ text[1] = ch
EndsWith(text, ch) == Len(text) > 0 /\ text[Len(text)] = ch

\* ch in text
Contains(text, ch) == \E i \in 1..Len(text) : text[i] = ch

\* text.count("\n", 0, idx)
CountNL(text, idx) == Cardinality({i \in 1..idx : i <= Len(text) /\ text[i] = NL})

\* text.rfind("\n", 0, idx): the 0-based offset of the last newline before idx, or -1
RFindNL(text, idx) ==
    LET hits == {i \in 1..idx : i <= Len(text) /\ text[i] = NL}
    IN  IF hits = {} THEN -1 ELSE (CHOOSE i \in hits : \A j \in hits : j <= i) - 1

\* the 1-based (line, col) of a 0-based offset of the base buffer
line_col_from_index(base_text, idx) ==
    LET line == CountNL(base_text, idx) + 1
        last_nl == RFindNL(base_text, idx)
        col == IF last_nl >= 0 THEN (idx - (last_nl + 1)) + 1 ELSE idx + 1
    IN  <<line, col>>

(***************************************************************************)
(* Regular expressions.  The patterns of the model are a literal, with at  *)
(* most one parenthesised group and an optional trailing "$" (end of line  *)
(* under re.MULTILINE); an unbalanced parenthesis does not compile.        *)
(***************************************************************************)
Count(text, ch) == Cardinality({i \in 1..Len(text) : text[i] = ch})

FirstIndex(text, ch) ==
    IF Contains(text, ch) THEN CHOOSE i \in 1..Len(text) : text[i] = ch /\ \A j \in 1..(i - 1) : text[j] # ch
    ELSE 0

\* re.compile(pattern) succeeds
Compiles(pattern) ==
    /\ Count(pattern, "(") = Count(pattern, ")")
    /\ Count(pattern, "(") <= 1
    /\ FirstIndex(pattern, "(") <= FirstIndex(pattern, ")")

\* the pattern ends with the end-of-line anchor
HasDollar(pattern) == EndsWith(pattern, "$")

\* the characters the pattern matches literally
Literal(pattern) ==
    SelectSeq(IF HasDollar(pattern) THEN SubSeq(pattern, 1, Len(pattern) - 1) ELSE pattern,
              LAMBDA c : c \notin {"(", ")"})

\* number of groups of the pattern
NumGroups(pattern) == Count(pattern, "(")

\* the match object of the pattern at 0-based offset i, a record of the
\* span and of the text of group 1 (empty when there is none)
MatchAt(pattern, text, i) ==
    LET lit == Literal(pattern)
        open == FirstIndex(pattern, "(")
        close == FirstIndex(pattern, ")")
    IN  [start |-> i, end |-> i + Len(lit), ngroups |-> NumGroups(pattern),
         g1 |-> IF open = 0 THEN <<>>
                ELSE Slice(text, i + open - 1, i + close - 2)]

\* the pattern matches at 0-based offset i
MatchesAt(pattern, text, i) ==
    LET lit == Literal(pattern)
        j == i + Len(lit)
    IN  /\ j <= Len(text)
        /\ Slice(text, i, j) = lit
        /\ HasDollar(pattern) => (j = Len(text) \/ text[j + 1] = NL)

\* list(re.finditer(pattern, text)): non-overlapping matches, left to right;
\* after an empty match the scan moves on by one character
RECURSIVE FindIterFrom(_, _, _)
FindIterFrom(pattern, text, i) ==
    IF i > Len(text) THEN <<>>
    ELSE IF MatchesAt(pattern, text, i)
         THEN <<MatchAt(pattern, text, i)>>
              \o FindIterFrom(pattern, text,
                              IF Literal(pattern) = <<>> THEN i + 1 ELSE i + Len(Literal(pattern)))
         ELSE FindIterFrom(pattern, text, i + 1)

FindIter(pattern, text) == FindIterFrom(pattern, text, 0)

NoMatch == [start |-> -1, end |-> -1, ngroups |-> 0, g1 |-> <<>>]

\* regex_obj.search(text): the first match, or None
Search(pattern, text) ==
    LET matches == FindIter(pattern, text)
    IN  IF matches = <<>> THEN NoMatch ELSE matches[1]

\* the closing-brace shape: '}' in pattern and ('$' in pattern or it ends with \s*)
is_closing_brace_pattern(pattern) ==
    /\ Contains(pattern, "}")
    /\ \/ Contains(pattern, "$")
       \/ (Len(pattern) >= 3 /\ SubSeq(pattern, Len(pattern) - 2, Len(pattern)) = <<"\\", "s", "*">>)

(***************************************************************************)
(* The Anchor Matcher.                                                     *)
(***************************************************************************)
\* the characters str.splitlines() breaks a line at
LineBreaks == {"\n", "\r"}

\* the characters of \s and of str.lstrip()
Whitespace == {" ", "\t", "\n", "\r"}

\* the characters of \w among those the model's texts use
WordChars ==
    {"a", "b", "c", "d", "e", "f", "i", "l", "o", "p", "r", "t", "u", "v", "x", "z",
     "0", "1", "2", "_"}

\* text.splitlines(keepends=True): a line ends after "\n", "\r" or "\r\n"
RECURSIVE SplitKeep(_, _, _)
SplitKeep(text, i, cur) ==
    IF i > Len(text) THEN (IF cur = <<>> THEN <<>> ELSE <<cur>>)
    ELSE IF text[i] = "\r" /\ i < Len(text) /\ text[i + 1] = "\n"
         THEN <<cur \o <<"\r", "\n">> >> \o SplitKeep(text, i + 2, <<>>)
    ELSE IF text[i] \in LineBreaks
         THEN <<cur \o <<text[i]>> >> \o SplitKeep(text, i + 1, <<>>)
    ELSE SplitKeep(text, i + 1, cur \o <<text[i]>>)

SplitLinesKeepEnds(text) == SplitKeep(text, 1, <<>>)

\* text.splitlines(): the same lines without their line breaks
SplitLines(text) ==
    LET kept == SplitLinesKeepEnds(text)
    IN  [i \in 1..Len(kept) |-> SelectSeq(kept[i], LAMBDA c : c \notin LineBreaks)]

\* len(line) - len(line.lstrip())
RECURSIVE Indentation(_)
Indentation(line) ==
    IF line # <<>> /\ line[1] \in Whitespace THEN 1 + Indentation(Tail(line)) ELSE 0

\* the length of the run of characters of `class` that starts at 1-based position i
RECURSIVE RunLen(_, _, _)
RunLen(line, i, class) ==
    IF i <= Len(line) /\ line[i] \in class THEN 1 + RunLen(line, i + 1, class) ELSE 0

MethodKeywords ==
    { <<"v", "o", "i", "d">>, <<"p", "u", "b", "l", "i", "c">>,
      <<"p", "r", "i", "v", "a", "t", "e">>, <<"p", "r", "o", "t", "e", "c", "t", "e", "d">> }

\* _METHOD_SIGNATURE_PATTERN.search(line): \b(void|public|private|protected)\s+\w+\s*\(
_METHOD_SIGNATURE_PATTERN(line) ==
    \E i \in 1..Len(line) : \E kw \in MethodKeywords :
        LET a == i + Len(kw)
            ws1 == RunLen(line, a, Whitespace)
            b == a + ws1
            w == RunLen(line, b, WordChars)
            c == b + w
            ws2 == RunLen(line, c, Whitespace)
            d == c + ws2
        IN  /\ a - 1 <= Len(line)
            /\ SubSeq(line, i, a - 1) = kw
            /\ (i = 1 \/ line[i - 1] \notin WordChars)
            /\ ws1 >= 1
            /\ w >= 1
            /\ d <= Len(line)
            /\ line[d] = "("

Max(a, b) == IF a >= b THEN a ELSE b
Min(a, b) == IF a <= b THEN a ELSE b

ScoreOf_two_lines_after(lines, line_num, indentation, distance_from_end) ==
    Max(0, 20 - indentation) + Max(0, 10 - distance_from_end)
    - 5 * Cardinality({k \in (Max(0, line_num - 3) + 1)..Min(Len(lines), line_num + 3) :
                          _METHOD_SIGNATURE_PATTERN(lines[k])})
    + (IF indentation <= 4 /\ distance_from_end <= 3 THEN 15 ELSE 0)

\* the score of a match on 0-based line line_num of the given indentation
\* and distance from the end
ScoreOf(lines, line_num, indentation, distance_from_end) ==
    Max(0, 20 - indentation) + Max(0, 10 - distance_from_end)
    - 5 * Cardinality({k \in (Max(0, line_num - 3) + 1)..Min(Len(lines), line_num + 2) :
                          _METHOD_SIGNATURE_PATTERN(lines[k])})
    + (IF indentation <= 4 /\ distance_from_end <= 3 THEN 15 ELSE 0)

ScoreOnLine(lines, line_num) ==
    IF line_num < Len(lines)
    THEN ScoreOf(lines, line_num, Indentation(lines[line_num + 1]), Len(lines) - line_num)
    ELSE 0

\* the score _find_best_closing_brace_match gives one match
BraceScore(match, text) == ScoreOnLine(SplitLines(text), CountNL(text, match.start))

\* the first match of the highest score (the sort is stable)
_find_best_closing_brace_match(matches, text) ==
    IF matches = <<>> THEN NoMatch
    ELSE matches[CHOOSE i \in 1..Len(matches) :
                 /\ \A j \in 1..Len(matches) : BraceScore(matches[j], text) <= BraceScore(matches[i], text)
                 /\ \A j \in 1..(i - 1) : BraceScore(matches[j], text) < BraceScore(matches[i], text)]

BestOf_always_last(matches, pattern, text, prefer_last) ==
    IF matches = <<>> THEN NoMatch
    ELSE IF Len(matches) = 1 THEN matches[1]
    ELSE IF is_closing_brace_pattern(pattern) /\ prefer_last
         THEN _find_best_closing_brace_match(matches, text)
    ELSE matches[Len(matches)]

\* the choice of find_best_anchor_match among the matches of finditer
BestOf(matches, pattern, text, prefer_last) ==
    IF matches = <<>> THEN NoMatch
    ELSE IF Len(matches) = 1 THEN matches[1]
    ELSE IF is_closing_brace_pattern(pattern) /\ prefer_last
         THEN _find_best_closing_brace_match(matches, text)
    ELSE IF prefer_last THEN matches[Len(matches)] ELSE matches[1]

find_best_anchor_match(pattern, text, prefer_last) ==
    BestOf(FindIter(pattern, text), pattern, text, prefer_last)

\* _DOLLAR_BACKREF_PATTERN.sub(lambda g: m.group(int(g.group(1))) or "", rep):
\* every $N of rep becomes group N of the match; a group the pattern does not
\* have raises IndexError, reported as ok = FALSE
Digits == {"0", "1", "2"}
DigitValue(c) == CASE c = "0" -> 0 [] c = "1" -> 1 [] c = "2" -> 2

RECURSIVE ParseInt(_, _)
ParseInt(digits, acc) ==
    IF digits = <<>> THEN acc ELSE ParseInt(Tail(digits), 10 * acc + DigitValue(digits[1]))

GroupOf(m, text, n) ==
    IF n = 0 THEN Slice(text, m.start, m.end) ELSE m.g1

\* the expansion so far followed by the rest of it
Then(piece, rest) == [ok |-> rest.ok, text |-> piece \o rest.text]

RECURSIVE ExpandFrom(_, _, _, _)
\* rep[i] is "$" followed by nd digits: the group they number
ExpandGroup(rep, m, text, i, nd, n) ==
    IF n > m.ngroups THEN [ok |-> FALSE, text |-> <<>>]
    ELSE Then(GroupOf(m, text, n), ExpandFrom(rep, m, text, i + 1 + nd))

ExpandAt(rep, m, text, i, nd) ==
    IF nd = 0 THEN Then(<<rep[i]>>, ExpandFrom(rep, m, text, i + 1))
    ELSE ExpandGroup(rep, m, text, i, nd, ParseInt(SubSeq(rep, i + 1, i + nd), 0))

ExpandFrom(rep, m, text, i) ==
    IF i > Len(rep) THEN [ok |-> TRUE, text |-> <<>>]
    ELSE ExpandAt(rep, m, text, i, IF rep[i] = "$" THEN RunLen(rep, i + 1, Digits) ELSE 0)

_expand_dollars(rep, m, text) == ExpandFrom(rep, m, text, 1)

(***************************************************************************)
(* The Local Edit Applier.  A result is [ok, text]; ok = FALSE stands for  *)
(* the RuntimeError (or re.error) the code raises, and then no text.       *)
(***************************************************************************)
\* e.get(k, default) for a key holding an int
IntOf(e, k, default) == IF Has(e, k) THEN e[k] ELSE default

Raised == [ok |-> FALSE, text |-> <<>>]
Returned(text) == [ok |-> TRUE, text |-> text]

RECURSIVE SumLen(_, _)
SumLen(lines, n) == IF n <= 0 THEN 0 ELSE Len(lines[n]) + SumLen(lines, n - 1)

\* index_of(line, col) of the replace_range branch
index_of(line, col, lines_ref) ==
    IF line <= Len(lines_ref) THEN SumLen(lines_ref, line - 1) + (col - 1)
    ELSE SumLen(lines_ref, Len(lines_ref))

RangeOutOfBounds_no_upper(start_line, start_col, end_line, end_col, max_line) ==
    \/ start_line < 1
    \/ end_line < start_line
    \/ start_col < 1
    \/ end_col < 1

\* the bounds test of the replace_range branch
RangeOutOfBounds(start_line, start_col, end_line, end_col, max_line) ==
    \/ start_line < 1
    \/ end_line < start_line
    \/ end_line > max_line
    \/ start_col < 1
    \/ end_col < 1

\* text[:a] + replacement + text[b:], with Python's clamping of slice bounds
Splice(text, a, b, replacement) ==
    Slice(text, 0, Min(a, Len(text))) \o replacement \o Slice(text, Min(b, Len(text)), Len(text))

\* the replace_range branch once the coordinates and the lines are known
ReplaceRange(text, start_line, start_col, end_line, end_col, replacement, lines) ==
    IF RangeOutOfBounds(start_line, start_col, end_line, end_col, Len(lines) + 1) THEN Raised
    ELSE Returned(Splice(text, index_of(start_line, start_col, lines),
                         index_of(end_line, end_col, lines), replacement))

ApplyReplaceRange(text, edit) ==
    ReplaceRange(text, IntOf(edit, "startLine", 1), IntOf(edit, "startCol", 1),
                 IntOf(edit, "endLine", IntOf(edit, "startLine", 1)), IntOf(edit, "endCol", 1),
                 TextOf(edit, "text"), SplitLinesKeepEnds(text))

\* text[from:m.start], the expansion x of the replacement, and the rest
SubJoin(text, from, m, x, rest) ==
    IF ~x.ok \/ ~rest.ok THEN Raised
    ELSE Returned(Slice(text, from, m.start) \o x.text \o rest.text)

\* re.sub(pattern, repl, text, count): the matches of finditer, the first
\* `count` of them when count > 0, each replaced by the expanded replacement
RECURSIVE SubFrom(_, _, _, _, _)
SubFrom(matches, repl, text, k, from) ==
    IF k > Len(matches) THEN Returned(Slice(text, from, Len(text)))
    ELSE SubJoin(text, from, matches[k], _expand_dollars(repl, matches[k], text),
                 SubFrom(matches, repl, text, k + 1, matches[k].end))

\* the first count matches when count > 0, all of them otherwise
Limit(all, count) == IF count > 0 THEN SubSeq(all, 1, Min(count, Len(all))) ELSE all

\* the pattern and the replacement template are compiled before any match is sought
ApplyRegexReplace(text, edit) ==
    IF \/ ~Compiles(TextOf(edit, "pattern"))
       \/ ~_expand_dollars(TextOf(edit, "replacement"),
                           [NoMatch EXCEPT !.ngroups = NumGroups(TextOf(edit, "pattern"))],
                           text).ok
    THEN Raised
    ELSE SubFrom(Limit(FindIter(TextOf(edit, "pattern"), text), IntOf(edit, "count", 0)),
                 TextOf(edit, "replacement"), text, 1, 0)

\* the insertion of insert_text before or after the match
InsertAt(text, match, position, insert_text, allow_noop) ==
    IF match = NoMatch THEN (IF allow_noop THEN Returned(text) ELSE Raised)
    ELSE IF position = "before" THEN Returned(Splice(text, match.start, match.start, insert_text))
    ELSE Returned(Splice(text, match.end, match.end, insert_text))

ApplyAnchorInsert(text, edit) ==
    IF ~Compiles(TextOf(edit, "anchor")) THEN Raised
    ELSE InsertAt(text,
                  find_best_anchor_match(TextOf(edit, "anchor"), text,
                                         IF Has(edit, "prefer_last") THEN edit["prefer_last"]
                                         ELSE TRUE),
                  Lower(IF TruthyTag(edit, "position") THEN edit["position"] ELSE "before"),
                  TextOf(edit, "text"),
                  IF Has(edit, "allow_noop") THEN edit["allow_noop"] ELSE TRUE)

\* s if it ends with a newline, else s and a newline
WithNewline(s) == IF EndsWith(s, NL) THEN s ELSE s \o <<NL>>

\* one iteration of the loop of apply_edits_locally, for the edit of tag op
ApplyOp(text, edit, op) ==
    IF op = "" THEN Raised
    ELSE IF op = "prepend" THEN Returned(WithNewline(TextOf(edit, "text")) \o text)
    ELSE IF op = "append" THEN Returned(WithNewline(WithNewline(text) \o TextOf(edit, "text")))
    ELSE IF op = "anchor_insert" THEN ApplyAnchorInsert(text, edit)
    ELSE IF op = "replace_range" THEN ApplyReplaceRange(text, edit)
    ELSE IF op = "regex_replace" THEN ApplyRegexReplace(text, edit)
    ELSE Raised

ApplyOne(text, edit) == ApplyOp(text, edit, OpOf(edit))

RECURSIVE ApplyFrom(_, _, _)
\* the rest of the loop after the result r of one edit
ApplyNext(r, edits, i) == IF r.ok THEN ApplyFrom(r.text, edits, i + 1) ELSE Raised

ApplyFrom(text, edits, i) ==
    IF i > Len(edits) THEN Returned(text) ELSE ApplyNext(ApplyOne(text, edits[i]), edits, i)

apply_edits_locally_reversed(original_text, edits) ==
    ApplyFrom(original_text, [i \in 1..Len(edits) |-> edits[Len(edits) + 1 - i]], 1)

apply_edits_locally(original_text, edits) == ApplyFrom(original_text, edits, 1)

(***************************************************************************)
(* Results.  An EditResult is a record of the fields the claims read:      *)
(* success, code, data.routing, and whether data holds expected,           *)
(* rewrite_suggestion, normalizedEdits, diff and no_op; `site` names the   *)
(* return statement that built it.                                         *)
(***************************************************************************)
Plain(success, code, site) ==
    [success |-> success, code |-> code, routing |-> "", expected |-> FALSE,
     rewrite |-> FALSE, norm |-> FALSE, diff |-> FALSE, no_op |-> FALSE, site |-> site]

_err(code, expected, rewrite, normalized, routing, site) ==
    [Plain(FALSE, code, site) EXCEPT !.expected = expected, !.rewrite = rewrite,
                                     !.norm = normalized, !.routing = routing]

\* variant: the routing label is not written
_with_norm_unlabelled(resp, routing) == [resp EXCEPT !.norm = TRUE]

_with_norm(resp, routing) ==
    [resp EXCEPT !.norm = TRUE, !.routing = IF routing # "" THEN routing ELSE @]

\* variant: the isinstance test inverted, a dict response is stringified
DictOrFailure_inverted(resp) ==
    IF resp.kind # "dict" THEN Plain(resp.success, resp.code, "remote")
    ELSE Plain(FALSE, "", "not_a_dict")

\* resp if isinstance(resp, dict) else {"success": False, "message": str(resp)}
DictOrFailure(resp) ==
    IF resp.kind = "dict" THEN Plain(resp.success, resp.code, "remote")
    ELSE Plain(FALSE, "", "not_a_dict")

(***************************************************************************)
(* Validation of required fields (the loop before routing).                *)
(***************************************************************************)
\* the message of the missing_field error of one edit, "" when it passes
MissingField(e) ==
    LET op == IF Has(e, "op") THEN e["op"] ELSE ""
        pos == Lower(IF TruthyTag(e, "position") THEN e["position"] ELSE "")
    IN  IF op = "replace_method"
        THEN IF ~Truthy(e, "methodName") THEN "replace_method requires methodName"
             ELSE IF ~(Truthy(e, "replacement") \/ Truthy(e, "text"))
                  THEN "replace_method requires replacement"
             ELSE ""
        ELSE IF op = "insert_method"
        THEN IF ~(Truthy(e, "replacement") \/ Truthy(e, "text"))
                  THEN "insert_method requires replacement"
             ELSE IF pos = "after" /\ ~Truthy(e, "afterMethodName")
                  THEN "insert_method requires afterMethodName"
             ELSE IF pos = "before" /\ ~Truthy(e, "beforeMethodName")
                  THEN "insert_method requires beforeMethodName"
             ELSE ""
        ELSE IF op = "delete_method"
        THEN IF ~Truthy(e, "methodName") THEN "delete_method requires methodName" ELSE ""
        ELSE IF op \in {"anchor_insert", "anchor_replace", "anchor_delete"}
        THEN IF ~Truthy(e, "anchor") THEN "anchor op requires anchor"
             ELSE IF op \in {"anchor_insert", "anchor_replace"}
                     /\ ~(Truthy(e, "text") \/ Truthy(e, "replacement"))
                  THEN "anchor op requires text"
             ELSE ""
        ELSE ""

\* variant: only edits[0] is validated
FirstInvalid_first_only(edits) ==
    IF Len(edits) > 0 /\ MissingField(edits[1]) # "" THEN 1 ELSE 0

\* the first edit of the batch that fails validation, 0 when none does
FirstInvalid(edits) ==
    LET bad == {i \in 1..Len(edits) : MissingField(edits[i]) # ""}
    IN  IF bad = {} THEN 0 ELSE CHOOSE i \in bad : \A j \in bad : i <= j

error_with_hint(message) == _err("missing_field", TRUE, TRUE, TRUE, "", message)

(***************************************************************************)
(* The Operation Router.                                                   *)
(***************************************************************************)
STRUCT ==
    {"replace_class", "delete_class", "replace_method", "delete_method",
     "insert_method", "anchor_delete", "anchor_replace", "anchor_insert"}

TEXT == {"prepend", "append", "replace_range", "regex_replace"}

ops_set(edits) == {RouterOp(edits[i]) : i \in 1..Len(edits)}
all_struct(edits) == ops_set(edits) \subseteq STRUCT
all_text(edits) == ops_set(edits) \subseteq TEXT
\* variant: every batch that is not all structured is mixed
mixed_not_struct(edits) == ~all_struct(edits)

mixed(edits) == ~(all_struct(edits) \/ all_text(edits))

\* the branch the request takes
RouteOf(edits) ==
    IF all_struct(edits) THEN "structured"
    ELSE IF mixed(edits) THEN "mixed/text-first"
    ELSE "text"

text_edits(edits) == SelectSeq(edits, LAMBDA e : RouterOp(e) \in TEXT)
struct_edits(edits) == SelectSeq(edits, LAMBDA e : RouterOp(e) \in STRUCT)

\* text_ops and structured_kinds of the pure text path
text_ops(edits) == {OpOf(edits[i]) : i \in 1..Len(edits)}
structured_kinds ==
    {"replace_class", "delete_class", "replace_method", "delete_method",
     "insert_method", "anchor_insert"}

(***************************************************************************)
(* Options and outbound change-sets.                                       *)
(***************************************************************************)
\* bool((options or {}).get(k))
OptionSet(options, k) == Has(options, k) /\ options[k] = TRUE

\* (options or {}).get(k, default)
OptionOr(options, k, default) == IF Has(options, k) THEN options[k] ELSE default

\* hashlib.sha256(text.encode("utf-8")).hexdigest(): a digest that tells texts apart
Sha256(text) == <<"sha256", text>>

NoSha == <<"none", <<>>>>

\* variant: the number of spans is not looked at
ApplyMode_of_caller(at_edits, options) == OptionOr(options, "applyMode", "sequential")

\* the applyMode of a text change-set
ApplyMode(at_edits, options) ==
    IF Len(at_edits) > 1 THEN "atomic" ELSE OptionOr(options, "applyMode", "sequential")

ReadRequest == [action |-> "read", edits |-> <<>>, sha |-> NoSha, options |-> <<>>]

\* the structured change-set: the options of the caller, refresh defaulted
StructRequest(edits, options, refresh) ==
    [action |-> "edit", edits |-> edits, sha |-> NoSha,
     options |-> SetDefault(options, "refresh", refresh)]

\* variant: the digest is taken of the first span's new text, not of the snapshot
TextRequest_wrong_digest(at_edits, base_text, options) ==
    [action |-> "apply_text_edits", edits |-> at_edits, sha |-> Sha256(at_edits[1].newText),
     options |-> [refresh |-> OptionOr(options, "refresh", "debounced"),
                  validate |-> OptionOr(options, "validate", "standard"),
                  applyMode |-> ApplyMode(at_edits, options)]]

\* the text change-set of the converted paths, guarded by the snapshot's digest
TextRequest(at_edits, base_text, options) ==
    [action |-> "apply_text_edits", edits |-> at_edits, sha |-> Sha256(base_text),
     options |-> [refresh |-> OptionOr(options, "refresh", "debounced"),
                  validate |-> OptionOr(options, "validate", "standard"),
                  applyMode |-> ApplyMode(at_edits, options)]]

Span(sl, sc, el, ec, newText) ==
    [startLine |-> sl, startCol |-> sc, endLine |-> el, endCol |-> ec, newText |-> newText]

(***************************************************************************)
(* Conversion of text operations to TextSpanEdits against the snapshot.    *)
(* A step is [kind, span, result]: kind "span" adds a span, "skip" adds    *)
(* none (continue), "fail" returns the result at once.                     *)
(***************************************************************************)
NoSpan == Span(0, 0, 0, 0, <<>>)
AddSpan(span) == [kind |-> "span", span |-> span, result |-> Plain(FALSE, "", "")]
SkipEdit == [kind |-> "skip", span |-> NoSpan, result |-> Plain(FALSE, "", "")]
FailWith(result) == [kind |-> "fail", span |-> NoSpan, result |-> result]

\* the first truthy of the keys, else ""
RECURSIVE FirstTruthy(_, _)
FirstTruthy(e, keys) ==
    IF keys = <<>> THEN <<>>
    ELSE IF Truthy(e, Head(keys)) THEN e[Head(keys)]
    ELSE FirstTruthy(e, Tail(keys))

\* the insertion of an anchor_insert, made to start and end with a newline
\* (the pure text path leaves an empty text empty)
NewlineWrapped(text_field, keep_empty) ==
    IF keep_empty /\ text_field = <<>> THEN <<>>
    ELSE LET t1 == IF StartsWith(text_field, NL) THEN text_field ELSE <<NL>> \o text_field
         IN  IF EndsWith(t1, NL) THEN t1 ELSE t1 \o <<NL>>

\* the span of an insertion at 0-based offset idx of the snapshot
InsertionSpan(base_text, idx, newText) ==
    Span(line_col_from_index(base_text, idx)[1], line_col_from_index(base_text, idx)[2],
         line_col_from_index(base_text, idx)[1], line_col_from_index(base_text, idx)[2],
         newText)

\* the anchor_insert branch after the anchor was sought
AnchorSpan(m, position, newText, base_text, routing) ==
    IF m = NoMatch
    THEN FailWith(_with_norm(Plain(FALSE, "anchor_not_found", "anchor not found"), routing))
    ELSE AddSpan(InsertionSpan(base_text, IF position = "before" THEN m.start ELSE m.end,
                               newText))

\* the regex_replace branch after the pattern was sought: the span of the
\* match, with the expanded replacement repl as its new text
RegexSpan(m, repl, base_text, failure) ==
    IF m = NoMatch THEN SkipEdit
    ELSE IF ~repl.ok THEN FailWith(failure)
    ELSE AddSpan(Span(line_col_from_index(base_text, m.start)[1],
                      line_col_from_index(base_text, m.start)[2],
                      line_col_from_index(base_text, m.end)[1],
                      line_col_from_index(base_text, m.end)[2], repl.text))

BadRegex(site, routing) ==
    FailWith(_with_norm(_err("bad_regex", FALSE, FALSE, TRUE, routing, site), routing))

\* the regex_replace branch of either path, for the match m it chose
RegexBranch(pattern, m, text_field, base_text, routing, failure) ==
    IF ~Compiles(pattern) THEN BadRegex("invalid regex pattern", routing)
    ELSE RegexSpan(m, _expand_dollars(text_field, m, base_text), base_text, failure)

\* the anchor_insert branch of either path
AnchorBranch(e, newText, base_text, routing) ==
    IF ~Compiles(TextOf(e, "anchor")) THEN BadRegex("invalid anchor regex", routing)
    ELSE AnchorSpan(find_best_anchor_match(TextOf(e, "anchor"), base_text, TRUE),
                    Lower(IF TruthyTag(e, "position") THEN e["position"] ELSE "after"),
                    newText, base_text, routing)

\* one iteration of the span loop of the mixed path, for the edit of tag opx
\* and text text_field
MixedSpanOf(e, base_text, opx, text_field) ==
    IF opx = "anchor_insert"
    THEN AnchorBranch(e, NewlineWrapped(text_field, FALSE), base_text, "mixed/text-first")
    ELSE IF opx = "replace_range"
    THEN IF \A k \in {"startLine", "startCol", "endLine", "endCol"} : Has(e, k)
         THEN AddSpan(Span(e["startLine"], e["startCol"], e["endLine"], e["endCol"], text_field))
         ELSE FailWith(_with_norm(_err("missing_field", FALSE, FALSE, TRUE, "mixed/text-first",
                                       "replace_range requires coordinates"),
                                  "mixed/text-first"))
    ELSE IF opx = "regex_replace"
    THEN RegexBranch(TextOf(e, "pattern"), Search(TextOf(e, "pattern"), base_text), text_field,
                     base_text, "mixed/text-first",
                     _with_norm(Plain(FALSE, "", "text edit conversion failed"),
                                "mixed/text-first"))
    ELSE IF opx = "prepend"
    THEN AddSpan(Span(1, 1, 1, 1, text_field))
    ELSE IF opx = "append"
    THEN AddSpan(InsertionSpan(base_text, Len(base_text),
                               (IF EndsWith(base_text, NL) THEN <<>> ELSE <<NL>>) \o text_field))
    ELSE FailWith(_with_norm(_err("unknown_op", FALSE, FALSE, TRUE, "mixed/text-first",
                                  "unsupported text edit op"), "mixed/text-first"))

MixedSpan(e, base_text) ==
    MixedSpanOf(e, base_text, OpOf(e),
                FirstTruthy(e, <<"text", "insert", "content", "replacement">>))

\* one iteration of the span loop of the pure text path
TextSpanOf(e, base_text, op, text_field) ==
    IF op = "anchor_insert"
    THEN AnchorBranch(e, NewlineWrapped(text_field, TRUE), base_text, "text")
    ELSE IF op = "replace_range"
    THEN IF Has(e, "startLine")
         THEN AddSpan(Span(IntOf(e, "startLine", 1), IntOf(e, "startCol", 1),
                           IntOf(e, "endLine", 1), IntOf(e, "endCol", 1), text_field))
         ELSE FailWith(_with_norm(Plain(FALSE, "missing_field",
                                        "replace_range requires coordinates"), "text"))
    ELSE IF op = "regex_replace"
    THEN RegexBranch(TextOf(e, "pattern"),
                     find_best_anchor_match(TextOf(e, "pattern"), base_text, TRUE),
                     text_field, base_text, "text",
                     _with_norm(Plain(FALSE, "conversion_failed", "edit conversion failed"),
                                "text"))
    ELSE FailWith(_with_norm(Plain(FALSE, "unsupported_op", "unsupported text edit op"),
                             "text"))

TextSpan(e, base_text) ==
    TextSpanOf(e, base_text, OpOf(e), FirstTruthy(e, <<"text", "insert", "content">>))

NoSpans == [failed |-> FALSE, result |-> Plain(FALSE, "", ""), spans |-> <<>>]

\* the loop after one step: a failure returns at once, a skip adds nothing
AfterStep(step, rest) ==
    IF step.kind = "fail" THEN [failed |-> TRUE, result |-> step.result, spans |-> <<>>]
    ELSE IF step.kind = "skip" THEN rest
    ELSE [rest EXCEPT !.spans = <<step.span>> \o @]

\* variant: each span is computed from the buffer as edited so far
RECURSIVE Spans_on_edited_buffer(_, _, _, _)
Spans_on_edited_buffer(edits, base_text, is_mixed, i) ==
    IF i > Len(edits) THEN NoSpans
    ELSE AfterStep(IF is_mixed THEN MixedSpan(edits[i], base_text)
                   ELSE TextSpan(edits[i], base_text),
                   Spans_on_edited_buffer(edits,
                                          apply_edits_locally(base_text, <<edits[i]>>).text,
                                          is_mixed, i + 1))

\* the span loop: [failed, result, spans]
RECURSIVE Spans(_, _, _, _)
Spans(edits, base_text, is_mixed, i) ==
    IF i > Len(edits) THEN NoSpans
    ELSE AfterStep(IF is_mixed THEN MixedSpan(edits[i], base_text)
                   ELSE TextSpan(edits[i], base_text),
                   Spans(edits, base_text, is_mixed, i + 1))

\* at_edits of the mixed path, built from the text operations of the batch
MixedSpans(edits, base_text) == Spans(text_edits(edits), base_text, TRUE, 1)

\* at_edits of the pure text path, built from the whole batch
TextSpans(edits, base_text) == Spans(edits, base_text, FALSE, 1)

(***************************************************************************)
(* The body of script_apply_edits between two awaits.  An outcome is       *)
(* either the returned result or the change-set sent next and the await    *)
(* the request then waits at.                                              *)
(***************************************************************************)
NoMsg == [action |-> "none", edits |-> <<>>, sha |-> NoSha, options |-> <<>>]

Return(result) == [kind |-> "return", result |-> result, msg |-> NoMsg, pc |-> "done"]
Send(msg, pc) == [kind |-> "send", result |-> Plain(FALSE, "", ""), msg |-> msg, pc |-> pc]

\* the result of a preview: the diff, the normalized edits, no routing label
PreviewOnly == [Plain(TRUE, "", "preview only") EXCEPT !.diff = TRUE, !.norm = TRUE]

\* the structured half of a mixed batch, and the return that follows it
MixedStructStage(edits, options) ==
    IF struct_edits(edits) # <<>>
    THEN Send(StructRequest(struct_edits(edits), options, "debounced"), "await_mixed_struct")
    ELSE Return(_with_norm(Plain(TRUE, "", "applied text edits"), "mixed/text-first"))

\* the mixed path once at_edits are built
MixedDispatch(built, contents, edits, options) ==
    IF built.failed THEN Return(built.result)
    ELSE IF built.spans # <<>>
         THEN Send(TextRequest(built.spans, contents, options), "await_mixed_text")
    ELSE MixedStructStage(edits, options)

\* the mixed path after the read
MixedPath(contents, edits, options) ==
    MixedDispatch(MixedSpans(edits, contents), contents, edits, options)

\* the pure text path once at_edits are built
TextDispatch(built, contents, options) ==
    IF built.failed THEN Return(built.result)
    ELSE IF built.spans = <<>>
         THEN Return(_with_norm(Plain(FALSE, "no_spans", "no spans computed"), "text"))
    ELSE Send(TextRequest(built.spans, contents, options), "await_text")

\* variant: the digest is taken of the locally edited buffer
TextPath_digest_of_edited(contents, edits, options) ==
    TextDispatch(TextSpans(edits, contents), apply_edits_locally(contents, edits).text, options)

\* the pure text path after the read: conversion to one text change-set
TextPath(contents, edits, options) ==
    TextDispatch(TextSpans(edits, contents), contents, options)

\* the whole-file change-set of the local path
WholeFileRequest(contents, new_contents, options) ==
    [action |-> "apply_text_edits",
     edits |-> <<Span(1, 1, Len(SplitLinesKeepEnds(contents)) + 1, 1, new_contents)>>,
     sha |-> Sha256(contents),
     options |-> SetDefault(SetDefault(options, "validate", "standard"), "refresh", "debounced")]

\* the statements after the two converted paths, for the outcome `applied`
\* of apply_edits_locally: the confirm rail of regex_replace, no-op
\* detection, preview, whole-file write
LocalDispatch(applied, contents, edits, options, preview) ==
    IF "regex_replace" \in text_ops(edits) /\ (preview \/ ~OptionSet(options, "confirm"))
    THEN IF ~applied.ok
         THEN Return(_with_norm(Plain(FALSE, "preview_failed", "preview failed"), "text"))
         ELSE IF preview THEN Return(PreviewOnly)
         ELSE Return(_with_norm([Plain(FALSE, "", "set confirm to apply")
                                   EXCEPT !.diff = TRUE], "text"))
    ELSE IF ~applied.ok THEN Return(Plain(FALSE, "", "edit application failed"))
    ELSE IF applied.text = contents
         THEN Return(_with_norm([Plain(TRUE, "", "no-op") EXCEPT !.no_op = TRUE], "text"))
    ELSE IF preview THEN Return(PreviewOnly)
    ELSE Send(WholeFileRequest(contents, applied.text, options), "await_text")

LocalPath(contents, edits, options) ==
    LocalDispatch(apply_edits_locally(contents, edits), contents, edits, options,
                  OptionSet(options, "preview"))

\* what follows a successful read
AfterSnapshot(contents, edits, options) ==
    IF mixed(edits) THEN MixedPath(contents, edits, options)
    ELSE IF ~(text_ops(edits) \subseteq structured_kinds) THEN TextPath(contents, edits, options)
    ELSE LocalPath(contents, edits, options)

\* validation and routing of the normalized batch
Validated(edits, options, bad) ==
    IF bad # 0 THEN Return(error_with_hint(MissingField(edits[bad])))
    ELSE IF all_struct(edits)
         THEN Send(StructRequest(edits, options, "immediate"), "await_struct")
    ELSE Send(ReadRequest, "await_read")

\* the request up to its first await, for the normalized batch
Entry(edits, options) == Validated(edits, options, FirstInvalid(edits))

(***************************************************************************)
(* Inputs.                                                                 *)
(***************************************************************************)
\* the script name after normalize_script_locator
ScriptName == <<"c">>

M == <<"m">>
T == <<"x">>
A == <<"a">>
B == <<"b">>

\* the file contents the remote editor can hold
Contents == { <<"a">>, <<"b">>, <<"a", NL, "a">> }

\* raw edit operations as callers send them
RawEdits ==
    { [op |-> "replace_method", methodName |-> M, replacement |-> T],
      [op |-> "replace_method", methodName |-> M, text |-> T],
      [op |-> "replace_method", replacement |-> T],
      [op |-> "insert_method", replacement |-> T, position |-> "After"],
      [delete_method |-> [method |-> M]],
      [op |-> "anchor_replace", anchor |-> A],
      [op |-> "anchor_insert", anchor |-> A, text |-> T],
      [type |-> "Prepend ", text |-> T],
      [op |-> "append", text |-> T],
      [op |-> "replace_range", startLine |-> 1, startCol |-> 1, endLine |-> 1, endCol |-> 2,
       text |-> A],
      [op |-> "replace_range", startLine |-> 1, endLine |-> 1, endCol |-> 2, text |-> T],
      [op |-> "replace_range", text |-> T],
      [op |-> "regex_replace", pattern |-> A, replacement |-> B],
      [op |-> "regex_replace", replacement |-> T],
      [op |-> "regex_replace", pattern |-> <<"(">>, replacement |-> T],
      [op |-> "frobnicate"],
      [text |-> T] }

\* the options callers pass
OptionChoices ==
    { <<>>, [preview |-> TRUE], [confirm |-> TRUE], [applyMode |-> "atomic"] }

\* the raw edits of the requests that race
RaceEdits ==
    { [op |-> "replace_method", methodName |-> M, replacement |-> T],
      [op |-> "regex_replace", pattern |-> A, replacement |-> B] }

\* the raw edits of the batches of several text operations next to
\* structured ones, and the longest such batch
MixEdits ==
    { [op |-> "replace_method", methodName |-> M, replacement |-> T],
      [op |-> "prepend", text |-> T],
      [op |-> "append", text |-> T],
      [op |-> "regex_replace", pattern |-> A, replacement |-> B] }

MixLen == 3

\* the sequences over S of length at most n
SeqsUpTo(S, n) == UNION {[1..k -> S] : k \in 0..n}

NoInput == [on |-> FALSE, edits |-> <<>>, options |-> <<>>]

Inputs(edits, options) ==
    {[on |-> TRUE, edits |-> b, options |-> o] : b \in SeqsUpTo(edits, MaxLen), o \in options}

(***************************************************************************)
(* State.                                                                  *)
(***************************************************************************)
VARIABLES
    input,      \* per request: the raw batch and the options of the call
    pc,         \* per request: "off", "new", the await it waits at, or "done"
    edits,      \* per request: the normalized batch
    route,      \* per request: the route chosen by the router, "" before
    snap,       \* per request: the snapshot read, [has, text]
    msg,        \* per request: the remote call in flight
    resp,       \* per request: the response not yet consumed
    result,     \* per request: the EditResult returned
    sent,       \* per request: the actions of the remote calls made, in order
    answers,    \* per request: the responses those calls have returned, in order
    file,       \* the remote editor's file content
    owner,      \* the request whose write put that content there, "none" at first
    applied,    \* history: the write change-sets the remote editor applied
    call,       \* a call of one of the helper functions on its own: [fn, ...arguments]
    ret         \* what that call returned: [done, out]

vars ==
    <<input, pc, edits, route, snap, msg, resp, result, sent, answers, file, owner, applied,
      call, ret>>

NoResp == [kind |-> "none", success |-> FALSE, code |-> "", has_contents |-> FALSE,
           contents |-> <<>>]
NoSnap == [has |-> FALSE, text |-> <<>>]
NoResult == Plain(FALSE, "", "pending")

\* no helper function is called on its own
NoCall == [fn |-> "none"]
NoRet == [done |-> FALSE]

InitWith(inputs, calls) ==
    /\ input \in inputs
    /\ pc = [r \in Reqs |-> IF input[r].on THEN "new" ELSE "off"]
    /\ edits = [r \in Reqs |-> <<>>]
    /\ route = [r \in Reqs |-> ""]
    /\ snap = [r \in Reqs |-> NoSnap]
    /\ msg = [r \in Reqs |-> NoMsg]
    /\ resp = [r \in Reqs |-> NoResp]
    /\ result = [r \in Reqs |-> NoResult]
    /\ sent = [r \in Reqs |-> <<>>]
    /\ answers = [r \in Reqs |-> <<>>]
    /\ file \in Contents
    /\ owner = "none"
    /\ applied = {}
    /\ call \in calls
    /\ ret = NoRet

\* one request at a time, over every batch and option
Init ==
    InitWith({[r \in Reqs |-> IF r = "r1" THEN i ELSE NoInput] :
                 i \in Inputs(RawEdits, OptionChoices)},
             {NoCall})

\* two requests against the same file
InitRace == InitWith([Reqs -> Inputs(RaceEdits, {<<>>})], {NoCall})

\* one request with a batch of up to MixLen operations
InitMixed ==
    InitWith({[r \in Reqs |-> IF r = "r1" THEN [on |-> TRUE, edits |-> b, options |-> <<>>]
                                          ELSE NoInput] :
                 b \in SeqsUpTo(MixEdits, MixLen)},
             {NoCall})

(***************************************************************************)
(* The request, one action per stretch of code between two awaits.         *)
(***************************************************************************)
\* the request returns, or sends its next remote call and waits
Continue(r, out) ==
    /\ pc' = [pc EXCEPT ![r] = out.pc]
    /\ msg' = [msg EXCEPT ![r] = out.msg]
    /\ resp' = [resp EXCEPT ![r] = NoResp]
    /\ result' = [result EXCEPT ![r] = IF out.kind = "return" THEN out.result ELSE @]
    /\ sent' = [sent EXCEPT ![r] = IF out.kind = "send" THEN Append(@, out.msg.action) ELSE @]

\* variant: the success flag of the response is not looked at
Succeeded_any_dict(response) == response.kind = "dict"

\* isinstance(resp, dict) and resp.get("success")
Succeeded(response) == response.kind = "dict" /\ response.success

\* the await of request r returns with the response of the remote editor
Awaited(r, at) ==
    /\ pc[r] = at
    /\ resp[r].kind # "none"
    /\ answers' = [answers EXCEPT ![r] = Append(@, resp[r])]

\* the request starts on the normalized batch and goes on to `out`
Started(r, normalized, out) ==
    /\ edits' = [edits EXCEPT ![r] = normalized]
    /\ route' = [route EXCEPT ![r] = IF out.kind = "send" THEN RouteOf(normalized) ELSE ""]
    /\ Continue(r, out)

\* normalization, validation, routing; the structured route sends its change-set
Start(r) ==
    /\ pc[r] = "new"
    /\ Started(r, _normalize_edits(input[r].edits, ScriptName),
               Entry(_normalize_edits(input[r].edits, ScriptName), input[r].options))
    /\ UNCHANGED <<call, ret, input, snap, answers, file, owner, applied>>

\* the structured route after its change-set
AfterStruct(r) ==
    /\ Awaited(r, "await_struct")
    /\ Continue(r, Return(_with_norm(DictOrFailure(resp[r]), "structured")))
    /\ UNCHANGED <<call, ret, input, edits, route, snap, file, owner, applied>>

\* after the read: the snapshot, then the mixed, text or local path
AfterRead(r) ==
    /\ Awaited(r, "await_read")
    /\ IF ~Succeeded(resp[r])
       THEN /\ Continue(r, Return(DictOrFailure(resp[r])))
            /\ snap' = snap
       ELSE IF ~resp[r].has_contents
       THEN /\ Continue(r, Return(Plain(FALSE, "", "no contents returned")))
            /\ snap' = snap
       ELSE /\ snap' = [snap EXCEPT ![r] = [has |-> TRUE, text |-> resp[r].contents]]
            /\ Continue(r, AfterSnapshot(resp[r].contents, edits[r], input[r].options))
    /\ UNCHANGED <<call, ret, input, edits, route, file, owner, applied>>

\* the mixed route after its text change-set
AfterMixedText(r) ==
    /\ Awaited(r, "await_mixed_text")
    /\ IF ~Succeeded(resp[r])
       THEN Continue(r, Return(_with_norm(DictOrFailure(resp[r]), "mixed/text-first")))
       ELSE Continue(r, MixedStructStage(edits[r], input[r].options))
    /\ UNCHANGED <<call, ret, input, edits, route, snap, file, owner, applied>>

\* the mixed route after its structured change-set
AfterMixedStruct(r) ==
    /\ Awaited(r, "await_mixed_struct")
    /\ Continue(r, Return(_with_norm(DictOrFailure(resp[r]), "mixed/text-first")))
    /\ UNCHANGED <<call, ret, input, edits, route, snap, file, owner, applied>>

\* the text route after its change-set
AfterText(r) ==
    /\ Awaited(r, "await_text")
    /\ Continue(r, Return(_with_norm(DictOrFailure(resp[r]), "text")))
    /\ UNCHANGED <<call, ret, input, edits, route, snap, file, owner, applied>>

(***************************************************************************)
(* The remote editor: it answers a read with the file's content, applies a *)
(* text change-set only when its precondition digest is that of the file's *)
(* content, and applies a structured change-set to the content it has.     *)
(***************************************************************************)
Dict(success, code) ==
    [kind |-> "dict", success |-> success, code |-> code, has_contents |-> FALSE,
     contents |-> <<>>]

NotADict == [NoResp EXCEPT !.kind = "other"]

Respond(r, response) ==
    /\ resp' = [resp EXCEPT ![r] = response]
    /\ msg' = [msg EXCEPT ![r] = NoMsg]

\* the record of an applied write: the change-set, the content it replaced,
\* the request that had written that content and the snapshot its request held
Applied(r) ==
    [req |-> r, action |-> msg[r].action, sha |-> msg[r].sha, before |-> file,
     over |-> owner, snap |-> snap[r]]

RemoteRead(r) ==
    /\ msg[r].action = "read"
    /\ \E answer \in {"contents", "no contents", "failure", "other"} :
          Respond(r, IF answer = "contents"
                     THEN [Dict(TRUE, "") EXCEPT !.has_contents = TRUE, !.contents = file]
                     ELSE IF answer = "no contents" THEN Dict(TRUE, "")
                     ELSE IF answer = "failure" THEN Dict(FALSE, "read_failed")
                     ELSE NotADict)
    /\ UNCHANGED <<call, ret, input, pc, edits, route, snap, result, sent, answers, file, owner,
                   applied>>

RemoteApplyTextEdits(r) ==
    /\ msg[r].action = "apply_text_edits"
    /\ IF msg[r].sha # Sha256(file)
       THEN /\ Respond(r, Dict(FALSE, "stale_file"))
            /\ UNCHANGED <<file, owner, applied>>
       ELSE \E answer \in {"applied", "rejected", "other"} :
               IF answer = "applied"
               THEN /\ \E c \in Contents : file' = c
                    /\ owner' = r
                    /\ applied' = applied \cup {Applied(r)}
                    /\ Respond(r, Dict(TRUE, ""))
               ELSE /\ Respond(r, IF answer = "rejected" THEN Dict(FALSE, "validation_failed")
                                  ELSE NotADict)
                    /\ UNCHANGED <<file, owner, applied>>
    /\ UNCHANGED <<call, ret, input, pc, edits, route, snap, result, sent, answers>>

RemoteEdit(r) ==
    /\ msg[r].action = "edit"
    /\ \E answer \in {"applied", "rejected", "other"} :
          IF answer = "applied"
          THEN /\ \E c \in Contents : file' = c
               /\ owner' = r
               /\ applied' = applied \cup {Applied(r)}
               /\ Respond(r, Dict(TRUE, ""))
          ELSE /\ Respond(r, IF answer = "rejected" THEN Dict(FALSE, "validation_failed")
                             ELSE NotADict)
               /\ UNCHANGED <<file, owner, applied>>
    /\ UNCHANGED <<call, ret, input, pc, edits, route, snap, result, sent, answers>>

Next ==
    \E r \in Reqs :
        \/ Start(r)
        \/ AfterStruct(r)
        \/ AfterRead(r)
        \/ AfterMixedText(r)
        \/ AfterMixedStruct(r)
        \/ AfterText(r)
        \/ RemoteRead(r)
        \/ RemoteApplyTextEdits(r)
        \/ RemoteEdit(r)

Spec == Init /\ [][Next]_vars

SpecRace == InitRace /\ [][Next]_vars

SpecMixed == InitMixed /\ [][Next]_vars

(***************************************************************************)
(* The script locator of utils.py.  A name or path is a sequence of        *)
(* tokens: "/", ".cs", a URI prefix, a blank, or a path segment.           *)
(***************************************************************************)
\* s.strip()
RECURSIVE Strip(_)
Strip(s) ==
    IF StartsWith(s, " ") THEN Strip(Tail(s))
    ELSE IF EndsWith(s, " ") THEN Strip(SubSeq(s, 1, Len(s) - 1))
    ELSE s

strip_prefix(s) ==
    IF StartsWith(s, "unity://path/") \/ StartsWith(s, "file://") THEN Tail(s) ELSE s

\* s.split("/")
RECURSIVE SplitFrom(_, _, _)
SplitFrom(s, i, cur) ==
    IF i > Len(s) THEN <<cur>>
    ELSE IF s[i] = "/" THEN <<cur>> \o SplitFrom(s, i + 1, <<>>)
    ELSE SplitFrom(s, i + 1, cur \o <<s[i]>>)

Split(s) == SplitFrom(s, 1, <<>>)

\* "/".join(parts)
RECURSIVE Join(_)
Join(parts) ==
    IF parts = <<>> THEN <<>>
    ELSE IF Len(parts) = 1 THEN parts[1]
    ELSE parts[1] \o <<"/">> \o Join(Tail(parts))

\* parts[:-1]
ButLast(parts) == SubSeq(parts, 1, Len(parts) - 1)

\* the duplicated last part is dropped
DropDuplicateTail(parts) ==
    IF Len(parts) >= 2 /\ parts[Len(parts)] = parts[Len(parts) - 1] THEN ButLast(parts)
    ELSE parts

collapse_duplicate_tail(s) == Join(DropDuplicateTail(Split(s)))

\* v2.endswith(".cs") or v2.startswith("Assets/")
IsFullPath(v2) == EndsWith(v2, ".cs") \/ (Len(v2) >= 2 /\ v2[1] = "Assets" /\ v2[2] = "/")

\* the first of n and p that holds a full path once its prefix is stripped
Candidate(n, p) ==
    IF IsFullPath(strip_prefix(n)) THEN strip_prefix(n)
    ELSE IF IsFullPath(strip_prefix(p)) THEN strip_prefix(p)
    ELSE <<>>

\* s.rstrip("/")
RECURSIVE RStripSlash(_)
RStripSlash(s) == IF EndsWith(s, "/") THEN RStripSlash(ButLast(s)) ELSE s

\* a directory in candidate and a file in the name are joined
JoinFile(candidate, n) ==
    IF ~EndsWith(candidate, ".cs") /\ EndsWith(n, ".cs")
    THEN RStripSlash(candidate) \o <<"/">> \o Split(strip_prefix(n))[Len(Split(strip_prefix(n)))]
    ELSE candidate

\* the file name without ".cs" and the parts before it
SplitFile(parts) ==
    [base |-> ButLast(parts[Len(parts)]),
     dir  |-> IF Len(parts) > 1 THEN Join(ButLast(parts)) ELSE <<"Assets">>]

\* the fall-back: the name without its extension and the path as given
FallBack(n, p) ==
    [base |-> IF EndsWith(n, ".cs") \/ EndsWith(n, ".CS") THEN ButLast(n) ELSE n,
     dir  |-> IF p # <<>> THEN p ELSE <<"Assets">>]

\* the branch taken for a candidate once collapsed and joined
FromCandidate(candidate, n, p) ==
    IF EndsWith(candidate, ".cs") THEN SplitFile(Split(candidate)) ELSE FallBack(n, p)

Locate(n, p) ==
    IF Candidate(n, p) # <<>>
    THEN FromCandidate(JoinFile(collapse_duplicate_tail(Candidate(n, p)), n), n, p)
    ELSE FallBack(n, p)

normalize_script_locator(name, path) == Locate(Strip(name), Strip(path))

(***************************************************************************)
(* The helper functions of utils.py and the normalizer, each called on its *)
(* own with arguments drawn from bounded sets.                             *)
(***************************************************************************)
\* the texts apply_edits_locally is called on
LocalTexts == { <<>>, <<"a">>, <<"a", NL>>, <<"a", NL, "b">> }

\* the largest line and column number of the replace_range edits
MaxCoord == 3

\* the replace_range edits over every line and column from 0 to MaxCoord
RangeEdits ==
    { [op |-> "replace_range", startLine |-> sl, startCol |-> sc, endLine |-> el,
       endCol |-> ec, text |-> T] :
          sl \in 0..MaxCoord, sc \in 0..MaxCoord, el \in 0..MaxCoord, ec \in 0..MaxCoord }

\* the directories a locator names hold at most this many segments
LocLen == 2

LocSegments == {"Assets", "assets", "x"}

\* a blank, a URI prefix or the root in front of a name
LocPrefixes == { <<>>, <<" ">>, <<"unity://path/">>, <<"file://", "/">>, <<"/">> }

LocFiles == { <<>>, <<"Foo">>, <<"Foo", ".cs">>, <<"Foo", ".CS">> }

\* the prefix, the directories d and the file f, joined by "/"
PathOf(prefix, d, f) ==
    prefix \o Join([i \in 1..Len(d) |-> <<d[i]>>] \o (IF f = <<>> THEN <<>> ELSE <<f>>))

\* normalize_script_locator(name, path) over names and paths with and
\* without prefix, directories and file
LocatorCalls ==
    { [fn |-> "normalize_script_locator", name |-> PathOf(np, nd, nf),
       path |-> PathOf(pp, pd, pf)] :
          np \in LocPrefixes, nd \in SeqsUpTo(LocSegments, LocLen), nf \in LocFiles,
          pp \in {<<>>, <<"unity://path/">>}, pd \in SeqsUpTo(LocSegments, LocLen),
          pf \in {<<>>, <<"Foo", ".cs">>} }

\* the batches apply_edits_locally is called on hold at most this many edits
FoldLen == 2

\* the edits of those batches: every operation, one that finds no anchor and
\* may not be skipped, and one of an unknown kind
LocalEdits ==
    { [op |-> "prepend", text |-> T],
      [op |-> "append", text |-> B],
      [op |-> "anchor_insert", anchor |-> A, text |-> T],
      [op |-> "anchor_insert", anchor |-> A, text |-> <<NL, "x", NL>>, position |-> "After"],
      [op |-> "anchor_insert", anchor |-> T, text |-> T, allow_noop |-> FALSE],
      [op |-> "replace_range", startLine |-> 1, startCol |-> 1, endLine |-> 1, endCol |-> 2,
       text |-> B],
      [op |-> "regex_replace", pattern |-> A, replacement |-> B],
      [op |-> "frobnicate"] }

\* apply_edits_locally(text, edits) for a batch of up to FoldLen edits
BatchCalls ==
    { [fn |-> "apply_edits_locally", text |-> t, edits |-> b] :
          t \in LocalTexts, b \in SeqsUpTo(LocalEdits, FoldLen) }

\* apply_edits_locally(text, [edit]) for one replace_range edit
LocalCalls ==
    { [fn |-> "apply_edits_locally", text |-> t, edits |-> <<e>>] :
          t \in LocalTexts, e \in RangeEdits }

\* the call returns out
Returns(out) ==
    /\ ~ret.done
    /\ ret' = [done |-> TRUE, out |-> out]
    /\ UNCHANGED <<call, input, pc, edits, route, snap, msg, resp, result, sent, answers, file,
                   owner, applied>>

ApplyLocally ==
    /\ call.fn = "apply_edits_locally"
    /\ Returns(apply_edits_locally(call.text, call.edits))

\* the operations the field spellings are added to
NormBases ==
    { [op |-> "replace_method"],
      [op |-> "insert_method", position |-> "before"],
      [op |-> "anchor_insert"],
      [type |-> "anchor_replace"],
      [op |-> "regex_replace"],
      [op |-> "append"],
      [delete_method |-> [method |-> M]] }

\* the keys _unwrap_and_alias reads a field from
Spellings ==
    { "className", "class_name", "class",
      "methodName", "method_name", "target", "method",
      "replacement", "new_content", "newMethod", "new_method", "content",
      "afterMethodName", "after", "after_method",
      "beforeMethodName", "before", "before_method", "anchor_method",
      "anchor", "anchorText", "pattern",
      "text", "newText" }

\* _normalize_edits([edit], name) for an operation carrying one or two spellings
NormCalls ==
    { [fn |-> "_normalize_edits", edits |-> << Put(Put(b, k1, v1), k2, v2) >>,
       name |-> ScriptName] :
          b \in NormBases, k1 \in Spellings, k2 \in Spellings, v1 \in {M}, v2 \in {M, T} }

\* the short texts an anchor is sought in hold at most this many characters
AnchorLen == 3

\* the texts of source lines hold at most this many lines
BraceLines == 4

\* the lines of those texts: a brace, a brace indented by five blanks, a
\* statement and a method signature
SourceLines ==
    { <<"}">>, <<" ", " ", " ", " ", " ", "}">>, <<"a">>, <<"v", "o", "i", "d", " ", "f", "(">> }

\* the lines joined by newlines
RECURSIVE JoinLines(_)
JoinLines(lines) ==
    IF lines = <<>> THEN <<>>
    ELSE IF Len(lines) = 1 THEN lines[1]
    ELSE lines[1] \o <<NL>> \o JoinLines(Tail(lines))

AnchorTexts ==
    SeqsUpTo({"a", "}", NL}, AnchorLen)
        \cup {JoinLines(ls) : ls \in SeqsUpTo(SourceLines, BraceLines)}

\* a literal, a literal at the end of a line, a brace, a brace at the end of
\* a line (the closing-brace shape) and a literal no text holds
AnchorPatterns == { A, <<"a", "$">>, <<"}">>, <<"}", "$">>, T }

\* find_best_anchor_match(pattern, text, flags, prefer_last)
AnchorCalls ==
    { [fn |-> "find_best_anchor_match", pattern |-> p, text |-> t, prefer_last |-> l] :
          p \in AnchorPatterns, t \in AnchorTexts, l \in BOOLEAN }

FindAnchor ==
    /\ call.fn = "find_best_anchor_match"
    /\ Returns(find_best_anchor_match(call.pattern, call.text, call.prefer_last))

\* the buffers whose offsets are converted hold at most this many characters
RoundLen == 3

\* line_col_from_index(idx) against a base buffer of letters, newlines and
\* carriage returns, for every offset of the buffer
LineColCalls ==
    UNION { { [fn |-> "line_col_from_index", text |-> t, idx |-> i] : i \in 0..Len(t) } :
                t \in SeqsUpTo({"a", NL, "\r"}, RoundLen) }

LineCol ==
    /\ call.fn = "line_col_from_index"
    /\ Returns(line_col_from_index(call.text, call.idx))

\* the fields that decide how an anchor_insert is reclassified
ReclassKeys ==
    << "anchor", "text", "insert", "content", "replacement", "afterMethodName",
       "beforeMethodName" >>

\* the operation that carries ReclassKeys[i] with the value vals[i], and
\* lacks it when vals[i] is <<"absent">>
RECURSIVE WithFields(_, _, _)
WithFields(e, vals, i) ==
    IF i > Len(ReclassKeys) THEN e
    ELSE WithFields(IF vals[i] = <<"absent">> THEN e ELSE Put(e, ReclassKeys[i], vals[i]),
                    vals, i + 1)

\* _normalize_edits([edit], name) for an anchor_insert with each of those
\* fields absent, empty or set
ReclassCalls ==
    { [fn |-> "_normalize_edits", edits |-> << WithFields([op |-> "anchor_insert"], vals, 1) >>,
       name |-> ScriptName] :
          vals \in [1..Len(ReclassKeys) -> {<<"absent">>, <<>>, M}] }

\* the batches normalized twice hold at most this many operations
IdemLen == 2

\* the raw operations callers send, and a regex_delete, a text_replace and
\* an LSP-style range
IdemEdits ==
    RawEdits \cup
    { [op |-> "regex_delete", pattern |-> A],
      [op |-> "text_replace", startLine |-> 1, startCol |-> 1, endLine |-> 1, endCol |-> 2,
       text |-> T],
      [range |-> [start |-> [line |-> 0, character |-> 0], end |-> [line |-> 0, character |-> 1]],
       newText |-> T] }

\* _normalize_edits(batch, name) for a batch of up to IdemLen raw operations
IdemCalls ==
    { [fn |-> "_normalize_edits", edits |-> b, name |-> ScriptName] :
          b \in SeqsUpTo(IdemEdits, IdemLen) }

NormalizeEdits ==
    /\ call.fn = "_normalize_edits"
    /\ Returns(_normalize_edits(call.edits, call.name))

NormalizeLocator ==
    /\ call.fn = "normalize_script_locator"
    /\ Returns(normalize_script_locator(call.name, call.path))

\* no request runs while a helper function is called on its own
InitLocal == InitWith({[r \in Reqs |-> NoInput]}, LocalCalls)

SpecLocal == InitLocal /\ [][ApplyLocally]_vars

InitBatch == InitWith({[r \in Reqs |-> NoInput]}, BatchCalls)

SpecBatch == InitBatch /\ [][ApplyLocally]_vars

InitNormalize == InitWith({[r \in Reqs |-> NoInput]}, NormCalls)

SpecNormalize == InitNormalize /\ [][NormalizeEdits]_vars

InitReclass == InitWith({[r \in Reqs |-> NoInput]}, ReclassCalls)

SpecReclass == InitReclass /\ [][NormalizeEdits]_vars

InitIdem == InitWith({[r \in Reqs |-> NoInput]}, IdemCalls)

SpecIdem == InitIdem /\ [][NormalizeEdits]_vars

InitAnchor == InitWith({[r \in Reqs |-> NoInput]}, AnchorCalls)

SpecAnchor == InitAnchor /\ [][FindAnchor]_vars

InitLineCol == InitWith({[r \in Reqs |-> NoInput]}, LineColCalls)

SpecLineCol == InitLineCol /\ [][LineCol]_vars

InitLocator == InitWith({[r \in Reqs |-> NoInput]}, LocatorCalls)

SpecLocator == InitLocator /\ [][NormalizeLocator]_vars

(***************************************************************************)
(* Properties of the request pipeline.                                     *)
(***************************************************************************)
Range(s) == {s[i] : i \in 1..Len(s)}

\* the actions of the write change-sets
Writes == {"edit", "apply_text_edits"}

\* the write change-sets request r has dispatched, in order
WritesOf(r) == SelectSeq(sent[r], LAMBDA a : a \in Writes)

\* request r has run its normalization, validation and routing
Entered(r) == pc[r] \notin {"off", "new"}

\* request r has returned its result
Done(r) == pc[r] = "done"

\* the op tag of a normalized edit, "" when it has none
OpTag(e) == IF Has(e, "op") THEN e["op"] ELSE ""

\* the op tags of the normalized batch of request r
Tags(r) == {OpTag(edits[r][i]) : i \in 1..Len(edits[r])}

StructuredTags ==
    {"replace_class", "delete_class", "replace_method", "delete_method",
     "insert_method", "anchor_insert", "anchor_replace", "anchor_delete"}

TextTags == {"prepend", "append", "replace_range", "regex_replace"}

\* the writes of request r that the remote editor applied
AppliedBy(r) == {a \in applied : a.req = r}

\* C1: a request that sets options.preview never dispatches a write
\* change-set ('edit' or 'apply_text_edits'), on any route, and the result
\* it returns once it holds the snapshot carries the diff.
C1_PreviewNeverWrites ==
    \A r \in Reqs :
        OptionSet(input[r].options, "preview")
            => /\ Range(sent[r]) \cap Writes = {}
               /\ (Done(r) /\ snap[r].has => result[r].diff)

\* C2: a batch of regex_replace operations only, with neither preview nor
\* confirm set, dispatches no write change-set, and the result it returns
\* once it holds the snapshot is a non-success carrying the diff.
C2_RegexNeedsConfirm ==
    \A r \in Reqs :
        ( /\ Entered(r)
          /\ edits[r] # <<>>
          /\ Tags(r) = {"regex_replace"}
          /\ ~OptionSet(input[r].options, "preview")
          /\ ~OptionSet(input[r].options, "confirm") )
            => /\ Range(sent[r]) \cap Writes = {}
               /\ (Done(r) /\ snap[r].has => ~result[r].success /\ result[r].diff)

\* the route request r is on, read off the remote calls it makes: its first
\* call, the calls it never makes, the await it is at, and the router's choice
OnRoute(r, label) ==
    /\ route[r] = label
    /\ CASE label = "structured" ->
              sent[r] = <<"edit">> /\ pc[r] \in {"await_struct", "done"}
         [] label = "text" ->
              /\ sent[r][1] = "read" /\ "edit" \notin Range(sent[r])
              /\ pc[r] \in {"await_read", "await_text", "done"}
         [] OTHER ->
              /\ sent[r][1] = "read"
              /\ pc[r] \in {"await_read", "await_mixed_text", "await_mixed_struct", "done"}

\* the route the tags of the batch of request r call for, "" when the batch
\* has a tag of neither set and no tag of one of the sets
RouteCalledFor(r) ==
    IF Tags(r) \subseteq StructuredTags THEN "structured"
    ELSE IF Tags(r) \subseteq TextTags THEN "text"
    ELSE IF Tags(r) \cap StructuredTags # {} /\ Tags(r) \cap TextTags # {}
         THEN "mixed/text-first"
    ELSE ""

\* request r has a non-empty normalized batch that passed validation
PassedValidation(r) == Entered(r) /\ edits[r] # <<>> /\ sent[r] # <<>>

PositionOf(e) == Lower(IF TruthyTag(e, "position") THEN e["position"] ELSE "")

\* the edit lacks a field that C4 names, a field counting as lacking when it
\* is absent or empty
LacksRequired(e) ==
    \/ OpTag(e) = "replace_method"
         /\ (~Truthy(e, "methodName") \/ ~Truthy(e, "replacement"))
    \/ OpTag(e) = "insert_method"
         /\ \/ ~Truthy(e, "replacement")
            \/ PositionOf(e) = "after" /\ ~Truthy(e, "afterMethodName")
            \/ PositionOf(e) = "before" /\ ~Truthy(e, "beforeMethodName")
    \/ OpTag(e) = "delete_method" /\ ~Truthy(e, "methodName")
    \/ OpTag(e) \in {"anchor_insert", "anchor_replace", "anchor_delete"} /\ ~Truthy(e, "anchor")
    \/ OpTag(e) = "anchor_replace" /\ ~Truthy(e, "text")

\* the same with `text` standing in for `replacement` and `replacement` for `text`
LacksRequiredOrAlias(e) ==
    \/ OpTag(e) = "replace_method"
         /\ (~Truthy(e, "methodName") \/ (~Truthy(e, "replacement") /\ ~Truthy(e, "text")))
    \/ OpTag(e) = "insert_method"
         /\ \/ ~Truthy(e, "replacement") /\ ~Truthy(e, "text")
            \/ PositionOf(e) = "after" /\ ~Truthy(e, "afterMethodName")
            \/ PositionOf(e) = "before" /\ ~Truthy(e, "beforeMethodName")
    \/ OpTag(e) = "delete_method" /\ ~Truthy(e, "methodName")
    \/ OpTag(e) \in {"anchor_insert", "anchor_replace", "anchor_delete"} /\ ~Truthy(e, "anchor")
    \/ OpTag(e) = "anchor_replace" /\ ~Truthy(e, "text") /\ ~Truthy(e, "replacement")

\* request r was refused with missing_field before any remote call
RefusedUnsent(r) ==
    /\ Done(r)
    /\ ~result[r].success
    /\ result[r].code = "missing_field"
    /\ sent[r] = <<>>

\* C4 (as stated): a batch with a replace_method lacking methodName or
\* replacement, an insert_method lacking replacement or the method name its
\* position asks for, a delete_method lacking methodName, an anchor op
\* lacking anchor or an anchor_replace lacking text returns missing_field
\* and sends no request to the remote editor.
C4_MissingFieldStrict ==
    \A r \in Reqs :
        Entered(r) /\ (\E i \in 1..Len(edits[r]) : LacksRequired(edits[r][i]))
            => RefusedUnsent(r)

\* C4 (amended): the same, where replace_method and insert_method lack
\* their replacement only when they hold neither `replacement` nor `text`,
\* and anchor_replace lacks its text only when it holds neither `text` nor
\* `replacement`.
C4_MissingField ==
    \A r \in Reqs :
        Entered(r) /\ (\E i \in 1..Len(edits[r]) : LacksRequiredOrAlias(edits[r][i]))
            => RefusedUnsent(r)

\* a batch whose first edit is complete and whose second lacks a field was refused
C4_Witness ==
    \E r \in Reqs :
        /\ RefusedUnsent(r)
        /\ Len(edits[r]) = 2
        /\ ~LacksRequiredOrAlias(edits[r][1])
        /\ LacksRequiredOrAlias(edits[r][2])

\* the edit lacks a field that C5 names
LacksTextField(e) ==
    \/ OpTag(e) = "replace_range"
         /\ \E k \in {"startLine", "startCol", "endLine", "endCol", "text"} : ~Has(e, k)
    \/ OpTag(e) = "regex_replace" /\ (~Has(e, "pattern") \/ ~Has(e, "replacement"))

\* C5: a batch with a replace_range lacking one of its four coordinates or
\* its text, or a regex_replace lacking pattern or replacement, dispatches
\* no write change-set and, whenever it returns, returns missing_field.
C5_TextFieldsRequired ==
    \A r \in Reqs :
        Entered(r) /\ (\E i \in 1..Len(edits[r]) : LacksTextField(edits[r][i]))
            => /\ Range(sent[r]) \cap Writes = {}
               /\ (Done(r) /\ snap[r].has => ~result[r].success /\ result[r].code = "missing_field")

\* C6: a batch with an operation that has no op tag, or a tag outside the
\* twelve recognized ones, never returns success and never dispatches a
\* write change-set: whatever it returns is a refusal.
C6_UnknownOpRefused ==
    \A r \in Reqs :
        Entered(r) /\ (Tags(r) \ (StructuredTags \cup TextTags) # {})
            => /\ ~(Done(r) /\ result[r].success)
               /\ Range(sent[r]) \cap Writes = {}

\* the edit is one that C7 says becomes one TextSpanEdit against the snapshot
OneSpanEdit(e, contents) ==
    \/ OpTag(e) \in {"prepend", "append"}
    \/ OpTag(e) = "replace_range"
         /\ \A k \in {"startLine", "startCol", "endLine", "endCol"} : Has(e, k)
    \/ /\ OpTag(e) = "regex_replace"
       /\ Has(e, "pattern")
       /\ Compiles(e["pattern"])
       /\ Search(e["pattern"], contents).start >= 0

\* C7: a non-empty batch of prepend, append, replace_range with its four
\* coordinates and regex_replace with a matching pattern, once the read has
\* succeeded, dispatches exactly one 'apply_text_edits' change-set holding
\* one TextSpanEdit per operation.
C7_OneSpanPerTextOp ==
    \A r \in Reqs :
        ( /\ Entered(r)
          /\ snap[r].has
          /\ edits[r] # <<>>
          /\ \A i \in 1..Len(edits[r]) : OneSpanEdit(edits[r][i], snap[r].text) )
            => /\ sent[r] = <<"read", "apply_text_edits">>
               /\ (msg[r].action = "apply_text_edits" => Len(msg[r].edits) = Len(edits[r]))

\* the response to the k-th remote call of request r reported success
Answered(r, k) ==
    /\ k <= Len(answers[r])
    /\ answers[r][k].kind = "dict"
    /\ answers[r][k].success

\* C8 (as stated): a request dispatches at most one write change-set, as its
\* last remote call, and a request that returns a failure has had no part
\* of its batch applied.
C8_SingleWrite ==
    \A r \in Reqs :
        /\ Len(WritesOf(r)) <= 1
        /\ \A k \in 1..Len(sent[r]) : sent[r][k] \in Writes => k = Len(sent[r])
        /\ (Done(r) /\ ~result[r].success => AppliedBy(r) = {})

\* C8 (amended): a request dispatches at most one change-set of each kind,
\* after its read and the text one first; only a mixed request dispatches
\* both; and a request that returns a failure after a part of its batch
\* was applied is a mixed request whose text change-set was applied and
\* whose structured change-set was not.
C8_WritesLast ==
    \A r \in Reqs :
        /\ sent[r] \in { <<>>, <<"edit">>, <<"read">>, <<"read", "apply_text_edits">>,
                         <<"read", "edit">>, <<"read", "apply_text_edits", "edit">> }
        /\ (Len(WritesOf(r)) > 1 \/ sent[r] = <<"read", "edit">>
               => route[r] = "mixed/text-first")
        /\ (Done(r) /\ ~result[r].success /\ AppliedBy(r) # {}
               => /\ route[r] = "mixed/text-first"
                  /\ sent[r] = <<"read", "apply_text_edits", "edit">>
                  /\ \A a \in AppliedBy(r) : a.action = "apply_text_edits")

\* a mixed request has returned a failure after its text change-set was applied
C8_Witness ==
    \E r \in Reqs :
        /\ Done(r) /\ ~result[r].success
        /\ sent[r] = <<"read", "apply_text_edits", "edit">>
        /\ \E a \in AppliedBy(r) : a.action = "apply_text_edits"

\* C9: on the mixed route the structured change-set is dispatched only after
\* the text change-set's dispatch has returned success, or when no text
\* change-set was dispatched; when the text dispatch fails the request
\* returns that response with routing 'mixed/text-first' and dispatches no
\* structured change-set; no change-set is sent twice.
C9_MixedTextFirst ==
    \A r \in Reqs :
        route[r] = "mixed/text-first"
            => /\ \A k \in 1..Len(sent[r]) :
                     sent[r][k] = "edit"
                         => /\ k = Len(sent[r])
                            /\ \A j \in 1..(k - 1) :
                                  sent[r][j] = "apply_text_edits" => Answered(r, j)
               /\ \A j \in 1..Len(answers[r]) :
                     sent[r][j] = "apply_text_edits" /\ ~Answered(r, j)
                         => /\ Done(r)
                            /\ "edit" \notin Range(sent[r])
                            /\ ~result[r].success
                            /\ result[r].routing = "mixed/text-first"
                            /\ result[r].code = answers[r][j].code
                            /\ result[r].site = IF answers[r][j].kind = "dict"
                                                THEN "remote" ELSE "not_a_dict"
               /\ \A a \in Writes : Len(SelectSeq(sent[r], LAMBDA x : x = a)) <= 1

\* a mixed request has dispatched its structured change-set after its text
\* change-set returned success
C9_Witness ==
    \E r \in Reqs :
        /\ route[r] = "mixed/text-first"
        /\ sent[r] = <<"read", "apply_text_edits", "edit">>
        /\ Answered(r, 2)

\* C10 (as stated): with two requests racing on one file, on every route a
\* write is applied over content the other request committed only when it
\* carries the digest of that content, so that it was computed from it: no
\* request overwrites the other's committed change unseen.
C10_NoStaleWrite ==
    \A a \in applied :
        a.over \notin {"none", a.req}
            => /\ a.sha = Sha256(a.before)
               /\ a.snap.has
               /\ a.snap.text = a.before

\* C10 (amended): every 'apply_text_edits' change-set the remote editor
\* applies, on the text route and in the text step of the mixed route,
\* carries the digest of its request's snapshot and that snapshot is the
\* content it replaces; an 'edit' change-set carries no digest.
C10_NoStaleTextWrite ==
    \A a \in applied :
        IF a.action = "apply_text_edits"
        THEN /\ a.snap.has
             /\ a.sha = Sha256(a.snap.text)
             /\ a.snap.text = a.before
        ELSE a.sha = NoSha

\* a text change-set was refused as stale after the other request's write
\* had changed the file under it
C10_Witness ==
    \E r \in Reqs :
        /\ Done(r)
        /\ result[r].code = "stale_file"
        /\ snap[r].has
        /\ \E a \in applied : a.req # r /\ a.before = snap[r].text

\* the spans of the batch of request r computed from the text, on its route
SpansFrom(r, text) ==
    IF route[r] = "text" THEN TextSpans(edits[r], text).spans
    ELSE MixedSpans(edits[r], text).spans

\* C11: an 'apply_text_edits' change-set is dispatched only after the read
\* of the same request returned success with the contents; its precondition
\* digest is the SHA-256 of exactly those contents, and its spans are the
\* ones computed from those contents.
C11_GuardedBySnapshot ==
    \A r \in Reqs :
        /\ \A k \in 1..Len(sent[r]) :
              sent[r][k] = "apply_text_edits"
                  => /\ k = 2
                     /\ sent[r][1] = "read"
                     /\ Answered(r, 1)
                     /\ answers[r][1].has_contents
        /\ msg[r].action = "apply_text_edits"
              => /\ snap[r].has
                 /\ snap[r].text = answers[r][1].contents
                 /\ msg[r].sha = Sha256(answers[r][1].contents)
                 /\ msg[r].edits = SpansFrom(r, answers[r][1].contents)

\* a text change-set of two spans is in flight
C11_Witness ==
    \E r \in Reqs :
        /\ msg[r].action = "apply_text_edits"
        /\ Len(msg[r].edits) = 2
        /\ msg[r].sha = Sha256(snap[r].text)

\* C12: a text batch whose local application leaves the buffer identical to
\* the snapshot dispatches no write change-set and returns a result that
\* reports no_op.
C12_NoOpDetected ==
    \A r \in Reqs :
        ( /\ Entered(r)
          /\ snap[r].has
          /\ edits[r] # <<>>
          /\ Tags(r) \subseteq TextTags
          /\ apply_edits_locally(snap[r].text, edits[r]) = Returned(snap[r].text) )
            => /\ Range(sent[r]) \cap Writes = {}
               /\ (Done(r) => result[r].no_op)

RoutingLabels == {"structured", "text", "mixed/text-first"}

C14_MissingFieldHints ==
    \A r \in Reqs :
        Done(r) /\ result[r].code = "missing_field"
            => result[r].expected /\ result[r].rewrite

\* C15 (as stated): the applyMode of a dispatched 'apply_text_edits'
\* change-set is 'atomic' with more than one span and 'sequential' with
\* exactly one, whatever applyMode the caller passed.
C15_ApplyModeBySpans ==
    \A r \in Reqs :
        msg[r].action = "apply_text_edits"
            => msg[r].options.applyMode =
                  IF Len(msg[r].edits) > 1 THEN "atomic" ELSE "sequential"

\* C15 (amended): the applyMode is 'atomic' with more than one span; with
\* exactly one span it is the applyMode the caller passed, 'sequential'
\* when the caller passed none.
C15_ApplyModeBySpansOrCaller ==
    \A r \in Reqs :
        msg[r].action = "apply_text_edits"
            => /\ Len(msg[r].edits) >= 1
               /\ msg[r].options.applyMode =
                     IF Len(msg[r].edits) > 1 THEN "atomic"
                     ELSE IF Has(input[r].options, "applyMode")
                          THEN input[r].options["applyMode"]
                     ELSE "sequential"

\* a change-set of one span is in flight with the caller's applyMode 'atomic'
C15_Witness ==
    \E r \in Reqs :
        /\ msg[r].action = "apply_text_edits"
        /\ Len(msg[r].edits) = 1
        /\ Has(input[r].options, "applyMode")
        /\ msg[r].options.applyMode = "atomic"

\* the span a text operation yields when it is the whole batch: none, or one
SpanAlone(e, text) == MixedSpans(<<e>>, text).spans

\* the spans the operations yield one by one, each taken alone, in order
RECURSIVE SpansAlone(_, _, _)
SpansAlone(es, text, i) ==
    IF i > Len(es) THEN <<>>
    ELSE SpanAlone(es[i], text) \o SpansAlone(es, text, i + 1)

\* C16: on the mixed route the span computed for a text operation depends
\* only on that operation and on the snapshot read: the dispatched spans
\* are, in batch order, the spans each text operation yields taken alone,
\* whatever other operations the batch holds.
C16_SpansIndependent ==
    \A r \in Reqs :
        route[r] = "mixed/text-first" /\ msg[r].action = "apply_text_edits"
            => msg[r].edits =
                  SpansAlone(SelectSeq(edits[r], LAMBDA e : OpTag(e) \in TextTags),
                             snap[r].text, 1)

\* a mixed batch is in flight whose second text operation follows one that
\* changes the line count
C16_Witness ==
    \E r \in Reqs :
        /\ route[r] = "mixed/text-first"
        /\ msg[r].action = "apply_text_edits"
        /\ Len(msg[r].edits) = 2
        /\ OpTag(edits[r][1]) = "prepend"
        /\ "regex_replace" \in Tags(r)

\* the edit is a regex_replace carrying pattern and replacement whose
\* pattern matches the text
MatchingRegexReplace(e, text) ==
    /\ OpTag(e) = "regex_replace"
    /\ Truthy(e, "pattern") /\ Has(e, "replacement")
    /\ Compiles(e["pattern"])
    /\ find_best_anchor_match(e["pattern"], text, TRUE) # NoMatch

\* C17: in a pure text batch of regex_replace operations that carry pattern
\* and replacement and match the snapshot, the newText of each dispatched
\* span is the operation's replacement with every $N replaced by group N of
\* the match.
C17_ReplacementExpanded ==
    \A r \in Reqs :
        ( /\ route[r] = "text"
          /\ msg[r].action = "apply_text_edits"
          /\ \A i \in 1..Len(edits[r]) : MatchingRegexReplace(edits[r][i], snap[r].text) )
            => /\ Len(msg[r].edits) = Len(edits[r])
               /\ \A i \in 1..Len(edits[r]) :
                     msg[r].edits[i].newText =
                        _expand_dollars(edits[r][i]["replacement"],
                                        find_best_anchor_match(edits[r][i]["pattern"],
                                                               snap[r].text, TRUE),
                                        snap[r].text).text

\* apply_edits_locally has returned from a call with one replace_range edit
RangeCallDone ==
    /\ call.fn = "apply_edits_locally"
    /\ ret.done
    /\ Len(call.edits) = 1
    /\ OpOf(call.edits[1]) = "replace_range"

\* 1 <= startLine <= endLine <= lineCount + 1, and both columns at least 1
WithinBounds(e, lineCount) ==
    /\ 1 <= e["startLine"]
    /\ e["startLine"] <= e["endLine"]
    /\ e["endLine"] <= lineCount + 1
    /\ e["startCol"] >= 1
    /\ e["endCol"] >= 1

\* C20: apply_edits_locally raises for a replace_range edit exactly when the
\* edit violates 1 <= startLine <= endLine <= lineCount + 1 or has a column
\* below 1; when it raises it returns no buffer, and the text it was called
\* on is the same after the call as before
C20_RaisesOutOfBounds ==
    /\ [](RangeCallDone =>
             /\ ~ret.out.ok <=> ~WithinBounds(call.edits[1], Len(SplitLinesKeepEnds(call.text)))
             /\ ~ret.out.ok => ret.out = Raised)
    /\ [][call.fn = "apply_edits_locally" => call'.text = call.text]_vars

\* a call that raises only because endLine is lineCount + 2
C20_Witness ==
    /\ RangeCallDone
    /\ ~ret.out.ok
    /\ call.text = <<"a">>
    /\ call.edits[1]["startLine"] = 1
    /\ call.edits[1]["endLine"] = 3
    /\ call.edits[1]["startCol"] = 1
    /\ call.edits[1]["endCol"] = 1

\* the alias keys of each canonical field
AcceptedAliases ==
    { <<"class_name", "className">>, <<"class", "className">>,
      <<"method_name", "methodName">>, <<"target", "methodName">>, <<"method", "methodName">>,
      <<"new_content", "replacement">>, <<"newMethod", "replacement">>,
      <<"new_method", "replacement">>, <<"content", "replacement">>,
      <<"after", "afterMethodName">>, <<"after_method", "afterMethodName">>,
      <<"before", "beforeMethodName">>, <<"before_method", "beforeMethodName">>,
      <<"anchorText", "anchor">>, <<"pattern", "anchor">>,
      <<"newText", "text">> }

\* the canonical key c and its aliases
SpellingsOf(c) == {c} \cup {p[1] : p \in {q \in AcceptedAliases : q[2] = c}}

\* e carries the field of the pair p under the alias p[1] and under no other
\* spelling; "pattern" counts as an alias on anchor_* operations only
AliasAlone(e, p) ==
    /\ SpellingsOf(p[2]) \cap DOMAIN e = {p[1]}
    /\ p[1] = "pattern" => IsAnchorOp(OpOf(e))

\* e with the value moved from the alias to the canonical key
UnderCanonicalKey(e, p) == Put(Pop(e, p[1]), p[2], e[p[1]])

NormalizeDone == call.fn = "_normalize_edits" /\ ret.done

\* C18: an operation that carries a value under an accepted alias alone
\* normalizes to exactly the operation that the same operation with the value
\* under the canonical key normalizes to
C18_AliasInvariance ==
    NormalizeDone =>
        \A p \in AcceptedAliases :
            AliasAlone(call.edits[1], p) =>
                ret.out = _normalize_edits(<<UnderCanonicalKey(call.edits[1], p)>>, call.name)

\* an anchor_insert with "pattern" alone and a text has been normalized: it
\* came out with the anchor under "anchor"
C18_Witness ==
    /\ NormalizeDone
    /\ AliasAlone(call.edits[1], <<"pattern", "anchor">>)
    /\ Has(call.edits[1], "text")
    /\ ret.out[1]["op"] = "anchor_insert"
    /\ Has(ret.out[1], "anchor")
    /\ ~Has(ret.out[1], "pattern")

\* the path segments of a name or path, blanks and URI prefix set aside
SegmentsOf(s) == Split(strip_prefix(Strip(s)))

\* the segment is 'Assets' in any case
IsAssets(segment) == segment \in {<<"Assets">>, <<"assets">>}

HasAssets(s) == \E i \in 1..Len(SegmentsOf(s)) : IsAssets(SegmentsOf(s)[i])

LocatorDone == call.fn = "normalize_script_locator" /\ ret.done

\* C19: when a path segment equal to 'Assets' (in any case) is present in the
\* name or in the path, the directory normalize_script_locator returns starts
\* at an Assets segment, every segment before it removed
C19_DirectoryStartsAtAssets ==
    (LocatorDone /\ (HasAssets(call.name) \/ HasAssets(call.path)))
        => IsAssets(Split(ret.out.dir)[1])

\* apply_edits_locally has returned
LocalDone == call.fn = "apply_edits_locally" /\ ret.done

\* the left fold of single-edit application over the first k edits: the k-th
\* edit is applied on its own to the buffer the k - 1 edits before it produced
RECURSIVE LeftFold(_, _, _)
FoldStep(before, edit) ==
    IF before.ok THEN apply_edits_locally(before.text, <<edit>>) ELSE Raised

LeftFold(text, batch, k) ==
    IF k = 0 THEN Returned(text) ELSE FoldStep(LeftFold(text, batch, k - 1), batch[k])

\* C21: apply_edits_locally(text, edits) is the left fold of single-edit
\* application over edits in list order, each edit applied to the buffer the
\* edits before it produced; the empty list returns the text unchanged
C21_LeftFold ==
    LocalDone =>
        /\ ret.out = LeftFold(call.text, call.edits, Len(call.edits))
        /\ call.edits = <<>> => ret.out = Returned(call.text)

\* a batch of two edits whose order matters has been applied: the anchor of
\* the second edit was replaced by the first, so the second found nothing
C21_Witness ==
    /\ LocalDone
    /\ call.text = <<"a">>
    /\ call.edits = << [op |-> "regex_replace", pattern |-> A, replacement |-> B],
                       [op |-> "anchor_insert", anchor |-> A, text |-> T] >>
    /\ ret.out = Returned(<<"b">>)

\* apply_edits_locally has returned from a call with the one edit, an
\* anchor_insert whose anchor matches in the text
AnchorInsertDone ==
    /\ LocalDone
    /\ Len(call.edits) = 1
    /\ OpOf(call.edits[1]) = "anchor_insert"
    /\ FindIter(call.edits[1]["anchor"], call.text) # <<>>
    /\ ret.out.ok

\* the part of the result between the first idx characters of the text and
\* the rest of the text
SplicedAt(text, out, idx) == Slice(out, idx, Len(out) - (Len(text) - idx))

\* out is the text with a piece spliced in at idx, and the piece begins and
\* ends with a newline
NewlineWrappedAt(text, out, idx) ==
    /\ Len(out) >= Len(text)
    /\ Slice(out, 0, idx) = Slice(text, 0, idx)
    /\ Slice(out, Len(out) - (Len(text) - idx), Len(out)) = Slice(text, idx, Len(text))
    /\ StartsWith(SplicedAt(text, out, idx), NL)
    /\ EndsWith(SplicedAt(text, out, idx), NL)

\* C22: the text apply_edits_locally splices into the buffer for an
\* anchor_insert whose anchor matches begins and ends with a newline
C22_InsertNewlineWrapped ==
    AnchorInsertDone =>
        \E idx \in 0..Len(call.text) : NewlineWrappedAt(call.text, ret.out.text, idx)

\* _normalize_edits has returned from a call with one anchor_insert
AnchorInsertNormalized ==
    /\ NormalizeDone
    /\ Len(call.edits) = 1
    /\ OpOf(call.edits[1]) = "anchor_insert"

NoAnchorPattern(e) == ~Truthy(e, "anchor")

HasInsertable(e) ==
    Truthy(e, "text") \/ Truthy(e, "insert") \/ Truthy(e, "content") \/ Truthy(e, "replacement")

HasMethodAnchor(e) == Truthy(e, "afterMethodName") \/ Truthy(e, "beforeMethodName")

\* the tag of an anchor_insert that is made an insert_method when toMethod
\* holds, else an anchor_delete when it carries nothing to insert
TagWhen(e, toMethod) ==
    IF toMethod THEN "insert_method"
    ELSE IF ~HasInsertable(e) THEN "anchor_delete"
    ELSE "anchor_insert"

AnchorDone == call.fn = "find_best_anchor_match" /\ ret.done

\* what the claim expects of the call on `matches`: nothing when there is no
\* match, the match when there is one, and of several the last or the first
ExpectedOf(matches, prefer_last, out) ==
    /\ matches = <<>> => out = NoMatch
    /\ Len(matches) = 1 => out = matches[1]
    /\ Len(matches) > 1 => out = (IF prefer_last THEN matches[Len(matches)] ELSE matches[1])

\* C24: find_best_anchor_match returns no match when the pattern matches
\* nowhere, the only match when there is exactly one and, for a pattern not
\* of the closing-brace shape with several matches, the last match when
\* prefer_last is true and the first otherwise; the match returned is thus
\* fixed by pattern, text and prefer_last
C24_MatchChosen ==
    (AnchorDone /\ (\/ Len(FindIter(call.pattern, call.text)) <= 1
                    \/ ~is_closing_brace_pattern(call.pattern)))
        => ExpectedOf(FindIter(call.pattern, call.text), call.prefer_last, ret.out)

\* of the three matches of "}" in "}}}" the first was returned, prefer_last
\* being false
C24_Witness ==
    /\ AnchorDone
    /\ call.pattern = <<"}">>
    /\ call.text = <<"}", "}", "}">>
    /\ ~call.prefer_last
    /\ ret.out.start = 0

\* find_best_anchor_match has returned from scoring several matches of a
\* pattern of the closing-brace shape
BracesScored ==
    /\ AnchorDone
    /\ call.prefer_last
    /\ is_closing_brace_pattern(call.pattern)
    /\ Len(FindIter(call.pattern, call.text)) > 1

\* the 0-based number of the line the match starts on
LineOf(match, text) == Cardinality({i \in 1..match.start : text[i] = NL})

\* the score of a match on 0-based line n: max(0, 20 - indentation) +
\* max(0, 10 - distanceFromEnd), minus 5 for each line like a method
\* signature among those whose 0-based numbers are in window, plus 15 when
\* indentation <= 4 and distanceFromEnd <= 3
ScoreOver(lines, n, window) ==
    Max(0, 20 - Indentation(lines[n + 1])) + Max(0, 10 - (Len(lines) - n))
    - 5 * Cardinality({k \in window : /\ k >= 0
                                       /\ k < Len(lines)
                                       /\ _METHOD_SIGNATURE_PATTERN(lines[k + 1])})
    + (IF Indentation(lines[n + 1]) <= 4 /\ Len(lines) - n <= 3 THEN 15 ELSE 0)

\* the 3 lines before and the 2 lines after line n
AroundAsClaimed(n) == ((n - 3)..(n - 1)) \cup ((n + 1)..(n + 2))

\* the 3 lines before line n, line n and the line after it
AroundAsCoded(n) == (n - 3)..(n + 1)

ClaimedScore(match, text) ==
    ScoreOver(SplitLines(text), LineOf(match, text), AroundAsClaimed(LineOf(match, text)))

CodedScore(match, text) ==
    ScoreOver(SplitLines(text), LineOf(match, text), AroundAsCoded(LineOf(match, text)))

\* C25: of several scored matches of a closing-brace pattern the one returned
\* is the earliest-found of the highest score, the score being max(0, 20 -
\* indentation) + max(0, 10 - distanceFromEnd), minus 5 for each
\* method-signature-like line among the 3 lines before and the 2 lines after
\* the match's line, plus 15 when indentation <= 4 and distanceFromEnd <= 3
C25_HighestScoreFirst ==
    BracesScored =>
        \E i \in 1..Len(FindIter(call.pattern, call.text)) :
            /\ ret.out = FindIter(call.pattern, call.text)[i]
            /\ \A j \in 1..Len(FindIter(call.pattern, call.text)) :
                  /\ ClaimedScore(FindIter(call.pattern, call.text)[j], call.text)
                        <= ClaimedScore(ret.out, call.text)
                  /\ j < i => ClaimedScore(FindIter(call.pattern, call.text)[j], call.text)
                                 < ClaimedScore(ret.out, call.text)

\* C25 as the code has it: the same, with the 5 taken off for each
\* method-signature-like line among the 3 lines before the match's line,
\* that line itself and the 1 line after it
C25_HighestCodedScoreFirst ==
    BracesScored =>
        \E i \in 1..Len(FindIter(call.pattern, call.text)) :
            /\ ret.out = FindIter(call.pattern, call.text)[i]
            /\ \A j \in 1..Len(FindIter(call.pattern, call.text)) :
                  /\ CodedScore(FindIter(call.pattern, call.text)[j], call.text)
                        <= CodedScore(ret.out, call.text)
                  /\ j < i => CodedScore(FindIter(call.pattern, call.text)[j], call.text)
                                 < CodedScore(ret.out, call.text)

\* two indented braces, a statement and a signature: the second brace was
\* returned, the signature two lines below it taking nothing off its score
C25_Witness ==
    /\ BracesScored
    /\ call.text = JoinLines(<< <<" ", " ", " ", " ", " ", "}">>,
                                <<" ", " ", " ", " ", " ", "}">>,
                                <<"a">>,
                                <<"v", "o", "i", "d", " ", "f", "(">> >>)
    /\ ret.out.start = 12

\* C26: for the same regex_replace operations and the same snapshot the pure
\* text path computes the spans the mixed path computes: the spans in flight
\* on the text route are those the mixed span loop yields for each operation
\* (the first match of the pattern, $N expanded from that match)
C26_SameSpanOnBothPaths ==
    \A r \in Reqs :
        ( /\ route[r] = "text"
          /\ msg[r].action = "apply_text_edits"
          /\ \A i \in 1..Len(edits[r]) : MatchingRegexReplace(edits[r][i], snap[r].text) )
            => msg[r].edits = SpansAlone(edits[r], snap[r].text, 1)

\* C27: an offset idx of a buffer, converted to (line, col) by
\* line_col_from_index and back to an offset by the index computation of the
\* replace_range branch of apply_edits_locally, is idx again, whatever line
\* separators the buffer holds
C27_LineColRoundTrip ==
    (call.fn = "line_col_from_index" /\ ret.done)
        => index_of(ret.out[1], ret.out[2], SplitLinesKeepEnds(call.text)) = call.idx

\* the offset the replace_range branch computes for (line, col) in text
OffsetOf(text, line, col) == index_of(line, col, SplitLinesKeepEnds(text))

\* out is text with the characters from offset a to offset b replaced
SplicedBetween(text, out, a, b, replacement) ==
    /\ a <= b
    /\ b <= Len(text)
    /\ out = Slice(text, 0, a) \o replacement \o Slice(text, b, Len(text))
    /\ Len(out) = Len(text) - (b - a) + Len(replacement)

\* C28: for a replace_range that passes the bounds validation of
\* apply_edits_locally the start offset is at most the end offset and both
\* lie in the buffer, so the result is prefix + replacement + suffix, prefix
\* and suffix being disjoint parts of the text, and its length is
\* len(text) - (end - start) + len(replacement)
C28_SpliceWithinBuffer ==
    (RangeCallDone /\ ret.out.ok) =>
        SplicedBetween(call.text, ret.out.text,
                       OffsetOf(call.text, call.edits[1]["startLine"], call.edits[1]["startCol"]),
                       OffsetOf(call.text, call.edits[1]["endLine"], call.edits[1]["endCol"]),
                       call.edits[1]["text"])

\* C29: _normalize_edits applied to its own output returns that output
\* unchanged, for every raw batch and script name
C29_NormalizeIdempotent ==
    NormalizeDone => _normalize_edits(ret.out, call.name) = ret.out

====
